---- MODULE Spec2Model ----
(***************************************************************************)
(* Model of the raddai-backend school management core:                     *)
(*   - the fee ledger (FeePaymentViewSet.create, FeePaymentSerializer,     *)
(*     FeePayment / FeeStructure tables),                                  *)
(*   - the result grading engine (Result.save and its write paths).        *)
(* Money is in whole currency units; scores, marks and percentages are in  *)
(* hundredths (Decimal with decimal_places=2), so 10.00 is 1000.           *)
(* Python's None is the string "None".                                     *)
(***************************************************************************)
EXTENDS Integers, Sequences, FiniteSets, TLC

VARIABLES
    feePayments,     \* the FeePayment table, in primary-key order
    feeStructures,   \* the FeeStructure table, by id
    response,        \* outcome of the last fee-ledger operation
    history,         \* outcomes of the payments of a scenario, in order
    results,         \* the Result table, in primary-key order
    resultResponse,  \* outcome of the last result operation
    previous,        \* the row a partial update replaced
    currentClass,    \* Student.current_class, by student
    rankingResponse, \* the last response of get_class_rankings
    classTeacher,    \* Class.class_teacher, by class primary key
    teacherResponse, \* outcome of the last class-teacher operation
    staffTable,      \* the Staff table: primary keys of its rows
    procs,           \* two concurrent payment requests, by worker
    saveOrder,       \* the workers in the order their writes committed
    attendance,      \* the Attendance table, in primary-key order
    accounts,        \* User, Student and Staff rows created through the API
    accessResponse   \* the last listing or account-creation response

vars == <<feePayments, feeStructures, response, history,
          results, resultResponse, previous,
          currentClass, rankingResponse, classTeacher, teacherResponse,
          staffTable,
          procs, saveOrder, attendance, accounts, accessResponse>>

resultVars == <<results, resultResponse, previous>>

rankVars == <<currentClass, rankingResponse>>

teacherVars == <<classTeacher, teacherResponse, staffTable>>

concVars == <<procs, saveOrder>>

accessVars == <<attendance, accounts, accessResponse>>

None == "None"

(***************************************************************************)
(* Bounds                                                                  *)
(***************************************************************************)
\* largest amount_paid a ledger row may reach in the model
MaxAmount == 300

\* most negative amount_paid a ledger row may reach in the model
MaxDebt == 100

\* number of payments recorded by the scenario specification
MaxHistory == 4

\* number of Result rows on the mark sheet that is ranked
MaxRankRows == 4

\* number of Result rows recorded before students change class
MaxTransferRows == 2

\* number of accounts created through the API
MaxAccounts == 2

(***************************************************************************)
(* Reference data                                                          *)
(***************************************************************************)
Students == {"s1", "s2"}

\* Student.current_class -> Class.grade ; s2 has no current class
StudentGrade(s) == IF s = "s1" THEN 1 ELSE 0

HasCurrentClass(s) == s = "s1"

AcademicYears == {"y1", "y2"}

Terms == {"first"}

FeeStructureIds == {"fs1", "fs2"}

TUITION == "tuition"

PENDING == "pending"

PAID == "paid"

OVERDUE == "overdue"

PARTIAL == "partial"

\* amounts an administrator may give a FeeStructure row
FeeAmounts == {0, 100, 200}

\* amount_paid values a caller may send
IncomingAmounts == {-100, 0, 100}

\* total_amount values a caller may send
PayloadTotals == {500}

TransactionIds == {"", "t1"}

InitFeeStructures ==
    [f \in FeeStructureIds |->
        IF f = "fs1"
        THEN [academic_year |-> "y1", grade |-> 1, fee_type |-> TUITION, amount |-> 200]
        ELSE [academic_year |-> "y1", grade |-> 2, fee_type |-> TUITION, amount |-> 100]]

Min(a, b) == IF a <= b THEN a ELSE b

\* Python truthiness of a number: "x or y"
Or(x, y) == IF x # 0 THEN x ELSE y

(***************************************************************************)
(* FeePaymentSerializer: the request payload -> validated_data             *)
(***************************************************************************)
Requests ==
    [student : Students, academic_year : AcademicYears, term : Terms,
     fee_structure : FeeStructureIds \cup {None},
     amount_paid : IncomingAmounts, total_amount : PayloadTotals,
     transaction_id : TransactionIds,
     payment_method : {""}, remarks : {""}, due_date : {"d1"}]

\* UniqueValidator of transaction_id; a blank value skips the validators
TransactionIdTaken(rows, t) ==
    /\ t # ""
    /\ \E i \in 1..Len(rows) : rows[i].transaction_id = t

\* is_valid(raise_exception=True)
SerializerIsValid(rows, req) ==
    /\ req.fee_structure # None
    /\ req.due_date # None
    /\ ~TransactionIdTaken(rows, req.transaction_id)

\* validated_data: academic_year is declared read-only on the serializer,
\* so the payload's academic_year never reaches validated_data
ValidatedData(req) == [req EXCEPT !.academic_year = None]

(***************************************************************************)
(* FeePaymentViewSet.create                                                *)
(***************************************************************************)
\* fs_qs.first(): the TUITION row of (academic_year, grade), or None
GradeFeeStructure(fs, year, grade) ==
    LET match == {f \in FeeStructureIds :
                     /\ fs[f].academic_year = year
                     /\ fs[f].grade = grade
                     /\ fs[f].fee_type = TUITION}
    IN  IF match = {} THEN None ELSE CHOOSE f \in match : TRUE

\* resolved_fee_structure after the try block
ResolvedFeeStructure(fs, data) ==
    IF HasCurrentClass(data.student) /\ data.academic_year # None
    THEN LET g == GradeFeeStructure(fs, data.academic_year, StudentGrade(data.student))
         IN  IF g # None THEN g ELSE data.fee_structure
    ELSE data.fee_structure

\* full_amount after the fallbacks
FullAmount(fs, data) ==
    LET r == ResolvedFeeStructure(fs, data)
    IN  IF r # None THEN fs[r].amount
        ELSE Or(data.total_amount, data.amount_paid)

\* a lookup that never finds the row
ExistingNeverFound(rows, data) == 0

\* FeePayment.objects.filter(student, academic_year, term).first(): pk or 0
Existing(rows, data) ==
    LET match == {i \in 1..Len(rows) :
                     /\ rows[i].student = data.student
                     /\ rows[i].academic_year = data.academic_year
                     /\ rows[i].term = data.term}
    IN  IF match = {} THEN 0
        ELSE CHOOSE i \in match : \A j \in match : i <= j

\* status computation shared by both branches
StatusOf(full, paid) ==
    IF full # 0 /\ paid >= full THEN PAID
    ELSE IF paid > 0 THEN PARTIAL
    ELSE PENDING

\* an update that stores the incoming amount instead of accumulating it
UpdatedRowOverwrites(row, full, data) ==
    LET new_amount_paid == IF full # 0 THEN Min(data.amount_paid, full)
                           ELSE data.amount_paid
    IN  [row EXCEPT
            !.amount_paid = new_amount_paid,
            !.total_amount = IF full # 0 THEN full ELSE @,
            !.payment_method = IF data.payment_method # "" THEN data.payment_method ELSE @,
            !.transaction_id = IF data.transaction_id # "" THEN data.transaction_id ELSE @,
            !.remarks = IF data.remarks # "" THEN data.remarks ELSE @,
            !.due_date = IF data.due_date # None THEN data.due_date ELSE @,
            !.status = StatusOf(full, new_amount_paid)]

\* an update that stores the audit fields as sent, blank or not
UpdatedRowAsSent(row, full, data) ==
    LET sum == row.amount_paid + data.amount_paid
        new_amount_paid == IF full # 0 THEN Min(sum, full) ELSE sum
    IN  [row EXCEPT
            !.amount_paid = new_amount_paid,
            !.total_amount = IF full # 0 THEN full ELSE @,
            !.payment_method = data.payment_method,
            !.transaction_id = data.transaction_id,
            !.remarks = data.remarks,
            !.due_date = data.due_date,
            !.status = StatusOf(full, new_amount_paid)]

\* the existing-row branch: the row as saved
UpdatedRow(row, full, data) ==
    LET sum == row.amount_paid + data.amount_paid
        new_amount_paid == IF full # 0 THEN Min(sum, full) ELSE sum
    IN  [row EXCEPT
            !.amount_paid = new_amount_paid,
            !.total_amount = IF full # 0 THEN full ELSE @,
            !.payment_method = IF data.payment_method # "" THEN data.payment_method ELSE @,
            !.transaction_id = IF data.transaction_id # "" THEN data.transaction_id ELSE @,
            !.remarks = IF data.remarks # "" THEN data.remarks ELSE @,
            !.due_date = IF data.due_date # None THEN data.due_date ELSE @,
            !.status = StatusOf(full, new_amount_paid)]

\* the new-row branch: the row handed to FeePayment.objects.create
\* (the fee_structure foreign key is stored but never read back by create,
\* and is left out of the row; an absent payment_method, transaction_id or
\* remarks is the empty string here and "falsy" in the existing-row branch)
NewRow(fs, full, data) ==
    LET total_amount == Or(full, data.amount_paid)
        amount_paid == Min(data.amount_paid, total_amount)
    IN  [student |-> data.student,
         academic_year |-> data.academic_year,
         term |-> data.term,
         amount_paid |-> amount_paid,
         total_amount |-> total_amount,
         status |-> StatusOf(total_amount, amount_paid),
         transaction_id |-> data.transaction_id,
         payment_method |-> data.payment_method,
         remarks |-> data.remarks,
         due_date |-> data.due_date]

\* database constraints on INSERT: transaction_id is UNIQUE (blank included);
\* unique_together (student, academic_year, term) binds only non-NULL keys
InsertViolatesUnique(rows, row) ==
    \E i \in 1..Len(rows) :
        \/ rows[i].transaction_id = row.transaction_id
        \/ /\ row.academic_year # None
           /\ rows[i].student = row.student
           /\ rows[i].academic_year = row.academic_year
           /\ rows[i].term = row.term

\* the payment's TUITION schedule amount at request time, -1 when there is none
ScheduleAmount(fs, req) ==
    LET g == IF HasCurrentClass(req.student)
             THEN GradeFeeStructure(fs, req.academic_year, StudentGrade(req.student))
             ELSE None
    IN  IF g = None THEN -1 ELSE fs[g].amount

Outcome(kind, pk, full, req) ==
    [kind |-> kind, pk |-> pk, full_amount |-> full,
     schedule |-> ScheduleAmount(feeStructures, req)]

NoResponse ==
    [kind |-> "none", pk |-> 0, full_amount |-> 0, schedule |-> -1]

\* FeePaymentViewSet.create, whole handler
Create(req) ==
    /\ UNCHANGED feeStructures
    /\ IF ~SerializerIsValid(feePayments, req)
       THEN /\ response' = Outcome("validation_error", 0, 0, req)
            /\ UNCHANGED feePayments
       ELSE LET data == ValidatedData(req)
                full_amount == FullAmount(feeStructures, data)
                existing == Existing(feePayments, data)
            IN  IF existing # 0
                THEN LET row == UpdatedRow(feePayments[existing], full_amount, data)
                     IN  /\ row.amount_paid <= MaxAmount
                         /\ row.amount_paid >= -MaxDebt
                         /\ feePayments' = [feePayments EXCEPT ![existing] = row]
                         /\ response' = Outcome("updated", existing, full_amount, req)
                ELSE LET row == NewRow(feeStructures, full_amount, data)
                     IN  IF InsertViolatesUnique(feePayments, row)
                         THEN /\ response' = Outcome("integrity_error", 0, full_amount, req)
                              /\ UNCHANGED feePayments
                         ELSE /\ feePayments' = Append(feePayments, row)
                              /\ response' = Outcome("created", Len(feePayments) + 1,
                                                     full_amount, req)

\* FeeStructureAdmin: an administrator changes the amount of a schedule row
ChangeFeeStructure(f, a) ==
    /\ feeStructures[f].amount # a
    /\ feeStructures' = [feeStructures EXCEPT ![f].amount = a]
    /\ response' = NoResponse
    /\ UNCHANGED feePayments

\* one entry of the scenario history: what the payment was and what it left
PaymentRecord(req, resp, rows) ==
    [student |-> req.student, term |-> req.term,
     incoming |-> req.amount_paid,
     full_amount |-> resp.full_amount,
     kind |-> resp.kind,
     amount_paid |-> IF resp.pk # 0 THEN rows[resp.pk].amount_paid ELSE 0,
     status |-> IF resp.pk # 0 THEN rows[resp.pk].status ELSE None,
     rows |-> Len(rows)]

applyFeePayment ==
    \E req \in Requests : Create(req) /\ UNCHANGED <<history, resultVars, rankVars, teacherVars, concVars, accessVars>>

changeFeeStructure ==
    \E f \in FeeStructureIds, a \in FeeAmounts :
        ChangeFeeStructure(f, a) /\ UNCHANGED <<history, resultVars, rankVars, teacherVars, concVars, accessVars>>

\* payments whose incoming amount is not negative
applyFeePaymentNonNeg ==
    \E req \in {r \in Requests : r.amount_paid >= 0} :
        Create(req) /\ UNCHANGED <<history, resultVars, rankVars, teacherVars, concVars, accessVars>>

\* the payments of the accumulation scenario: one key, a full fee of 300
SeqAmounts == {0, 50, 100}

SeqRequests ==
    [student : {"s1"}, academic_year : {"y1"}, term : {"first"},
     fee_structure : {"fs1"}, amount_paid : SeqAmounts,
     total_amount : PayloadTotals, transaction_id : {""},
     payment_method : {""}, remarks : {""}, due_date : {"d1"}]

applyFeePaymentSeq ==
    \E req \in SeqRequests :
        /\ Len(history) < MaxHistory
        /\ Create(req)
        /\ history' = Append(history, PaymentRecord(req, response', feePayments'))
        /\ UNCHANGED <<resultVars, rankVars, teacherVars, concVars, accessVars>>

(***************************************************************************)
(* Result grading: Result.save and Result.percentage                       *)
(***************************************************************************)
\* Result.percentage: marks in hundredths, total_marks in whole marks,
\* the percentage in hundredths of a percent
Percentage(marks_obtained, total_marks) ==
    IF total_marks > 0 THEN (marks_obtained * 100) \div total_marks ELSE 0

\* a chain whose first bound is exclusive
GradeExclusiveTop(percentage) ==
    IF percentage > 9000 THEN "A+"
    ELSE IF percentage >= 8000 THEN "A"
    ELSE IF percentage >= 7000 THEN "B+"
    ELSE IF percentage >= 6000 THEN "B"
    ELSE IF percentage >= 5000 THEN "C+"
    ELSE IF percentage >= 4000 THEN "C"
    ELSE IF percentage >= 3000 THEN "D"
    ELSE "F"

\* a chain with the letters of two neighbouring bands exchanged
GradeSwapped(percentage) ==
    IF percentage >= 9000 THEN "A+"
    ELSE IF percentage >= 8000 THEN "A"
    ELSE IF percentage >= 7000 THEN "B+"
    ELSE IF percentage >= 6000 THEN "C+"
    ELSE IF percentage >= 5000 THEN "B"
    ELSE IF percentage >= 4000 THEN "C"
    ELSE IF percentage >= 3000 THEN "D"
    ELSE "F"

\* the if/elif chain of Result.save
Grade(percentage) ==
    IF percentage >= 9000 THEN "A+"
    ELSE IF percentage >= 8000 THEN "A"
    ELSE IF percentage >= 7000 THEN "B+"
    ELSE IF percentage >= 6000 THEN "B"
    ELSE IF percentage >= 5000 THEN "C+"
    ELSE IF percentage >= 4000 THEN "C"
    ELSE IF percentage >= 3000 THEN "D"
    ELSE "F"

\* a save that grades the instance without recomputing marks_obtained
ResultSaveKeepsMarks(obj) ==
    [obj EXCEPT !.total_marks = 100,
                !.grade = Grade(Percentage(obj.marks_obtained, 100))]

\* Result.save: the derived fields are assigned before the row is written
ResultSave(obj) ==
    LET ca_total == obj.ca1_score + obj.ca2_score + obj.ca3_score + obj.ca4_score
        marks == ca_total + obj.exam_score
    IN  [obj EXCEPT !.marks_obtained = marks,
                    !.total_marks = 100,
                    !.grade = Grade(Percentage(marks, 100))]

ResultStudents == {"s1"}

Subjects == {"math"}

ResultKeys == [student : ResultStudents, subject : Subjects,
               academic_year : {"y1"}, term : {"first"}]

\* scores a caller may send to the API or type into the admin form
CAInputs == {-1, 0, 1000, 1001}

ExamInputs == {-1, 0, 3999, 4000, 4999, 5000, 6001}

\* scores generate_sample_results draws: round(uniform(6, 10), 1) and
\* round(uniform(35, 60), 1); sums of such one-decimal floats land on the
\* same side of every grade bound as the exact decimal sums
SampleCA == {600, 1000}

SampleExam == {3500, 6000}

\* values a caller sends for the derived fields when it tries to set them
SuppliedMarks == 9999

SuppliedTotal == 50

SuppliedGrade == "A+"

ScoreFields == {"ca1_score", "ca2_score", "ca3_score", "ca4_score", "exam_score"}

\* the score ranges as the specification states them: each CA score in
\* [0, 10] and the exam score in [0, 60]
FieldInRange(f, value) ==
    value >= 0 /\ value <= (IF f = "exam_score" THEN 6000 ELSE 1000)

InRange(p) == \A f \in ScoreFields : FieldInRange(f, p[f])

OutOfRangeFields(p) == {f \in ScoreFields : ~FieldInRange(f, p[f])}

\* the requests that are sent: every score in range, one score out of
\* range (below 0 or above the maximum), or all five out of range
Sent(p) == Cardinality(OutOfRangeFields(p)) \in {0, 1, 5}

Payloads ==
    {p \in [ca1_score : CAInputs, ca2_score : CAInputs, ca3_score : CAInputs,
            ca4_score : CAInputs, exam_score : ExamInputs, supplied : BOOLEAN] :
        Sent(p)}

AdminForms ==
    {p \in [ca1_score : CAInputs, ca2_score : CAInputs, ca3_score : CAInputs,
            ca4_score : CAInputs, exam_score : ExamInputs, supplied : {FALSE}] :
        Sent(p)}

SampleScores ==
    [ca1_score : SampleCA, ca2_score : SampleCA, ca3_score : SampleCA,
     ca4_score : SampleCA, exam_score : SampleExam, supplied : {FALSE}]

\* validate_ca1_score .. validate_ca4_score, and the admin's checks
CAScoreValid(value) == ~(value < 0 \/ value > 1000)

\* validate_exam_score, and the admin's check
ExamScoreValid(value) == ~(value < 0 \/ value > 6000)

FieldValid(f, value) ==
    IF f = "exam_score" THEN ExamScoreValid(value) ELSE CAScoreValid(value)

ScoresValid(p) == \A f \in ScoreFields : FieldValid(f, p[f])

\* a model instance built from a key: field defaults of Result
NewResult(key) ==
    [student |-> key.student, subject |-> key.subject,
     academic_year |-> key.academic_year, term |-> key.term,
     ca1_score |-> 0, ca2_score |-> 0, ca3_score |-> 0, ca4_score |-> 0,
     exam_score |-> 0, marks_obtained |-> 0, total_marks |-> 100, grade |-> ""]

\* ResultSerializer: marks_obtained, total_marks and grade are read-only,
\* so only the scores of the payload are applied to the instance
ApplyValidated(obj, p) ==
    [obj EXCEPT !.ca1_score = p.ca1_score, !.ca2_score = p.ca2_score,
                !.ca3_score = p.ca3_score, !.ca4_score = p.ca4_score,
                !.exam_score = p.exam_score]

\* the admin form: marks_obtained and grade are readonly_fields and
\* total_marks is not editable, so the form carries the scores only
ApplyForm(obj, p) ==
    [obj EXCEPT !.ca1_score = p.ca1_score, !.ca2_score = p.ca2_score,
                !.ca3_score = p.ca3_score, !.ca4_score = p.ca4_score,
                !.exam_score = p.exam_score]

\* Result.objects.filter(student, subject, academic_year, term).first()
ExistingResult(rows, key) ==
    LET match == {i \in 1..Len(rows) :
                     /\ rows[i].student = key.student
                     /\ rows[i].subject = key.subject
                     /\ rows[i].academic_year = key.academic_year
                     /\ rows[i].term = key.term}
    IN  IF match = {} THEN 0
        ELSE CHOOSE i \in match : \A j \in match : i <= j

\* the answer to a request, with two facts about the request it answers:
\* whether it supplied the derived fields and whether a score it carried
\* lay outside the stated ranges
ResultOutcome(kind, pk, supplied, out_of_range) ==
    [kind |-> kind, pk |-> pk, supplied |-> supplied, out_of_range |-> out_of_range]

NoResultResponse == ResultOutcome("none", 0, FALSE, FALSE)

\* POST /results/: ModelViewSet.create through ResultSerializer
\* (field validation runs first; the UniqueTogetherValidator of the key
\* runs on valid fields and also answers 400)
ApiCreateResult(key, p) ==
    IF ~ScoresValid(p)
    THEN /\ resultResponse' = ResultOutcome("validation_error", 0, p.supplied, ~InRange(p))
         /\ UNCHANGED results
    ELSE IF ExistingResult(results, key) # 0
    THEN /\ resultResponse' = ResultOutcome("unique_error", 0, p.supplied, ~InRange(p))
         /\ UNCHANGED results
    ELSE /\ results' = Append(results, ResultSave(ApplyValidated(NewResult(key), p)))
         /\ resultResponse' = ResultOutcome("created", Len(results) + 1, p.supplied, ~InRange(p))

\* PUT /results/<pk>/: ModelViewSet.update
ApiUpdateResult(pk, p) ==
    /\ pk \in 1..Len(results)
    /\ IF ~ScoresValid(p)
       THEN /\ resultResponse' = ResultOutcome("validation_error", 0, p.supplied, ~InRange(p))
            /\ UNCHANGED results
       ELSE /\ results' = [results EXCEPT ![pk] = ResultSave(ApplyValidated(@, p))]
            /\ resultResponse' = ResultOutcome("updated", pk, p.supplied, ~InRange(p))

\* PATCH /results/<pk>/ with one score: ModelViewSet.partial_update
ApiPartialUpdateResult(pk, f, value, supplied) ==
    /\ pk \in 1..Len(results)
    /\ IF ~FieldValid(f, value)
       THEN /\ resultResponse' = ResultOutcome("validation_error", 0, supplied, ~FieldInRange(f, value))
            /\ UNCHANGED results
       ELSE /\ results' = [results EXCEPT ![pk] = ResultSave([@ EXCEPT ![f] = value])]
            /\ resultResponse' = ResultOutcome("patched", pk, supplied, ~FieldInRange(f, value))

\* ResultAdmin.save_model on the add form
AdminAddResult(key, p) ==
    IF ExistingResult(results, key) # 0
    THEN /\ resultResponse' = ResultOutcome("form_error", 0, FALSE, ~InRange(p))
         /\ UNCHANGED results
    ELSE IF ~ScoresValid(p)
    THEN /\ resultResponse' = ResultOutcome("admin_rejected", 0, FALSE, ~InRange(p))
         /\ UNCHANGED results
    ELSE /\ results' = Append(results, ResultSave(ApplyForm(NewResult(key), p)))
         /\ resultResponse' = ResultOutcome("admin_saved", Len(results) + 1, FALSE, ~InRange(p))

\* ResultAdmin.save_model on the change form
AdminChangeResult(pk, p) ==
    /\ pk \in 1..Len(results)
    /\ IF ~ScoresValid(p)
       THEN /\ resultResponse' = ResultOutcome("admin_rejected", 0, FALSE, ~InRange(p))
            /\ UNCHANGED results
       ELSE /\ results' = [results EXCEPT ![pk] = ResultSave(ApplyForm(@, p))]
            /\ resultResponse' = ResultOutcome("admin_saved", pk, FALSE, ~InRange(p))

\* the rows left by "Result.objects.filter(academic_year, term).delete()"
ClearExisting(rows, key) ==
    SelectSeq(rows, LAMBDA r : ~(r.academic_year = key.academic_year /\ r.term = key.term))

\* generate_sample_results.Command.handle for the one student with a class
\* and the one subject: clear, skip an existing row, get_or_create
GenerateSampleResults(key, clear_existing, p) ==
    LET rows == IF clear_existing THEN ClearExisting(results, key) ELSE results
        existing_result == ExistingResult(rows, key)
    IN  /\ HasCurrentClass(key.student)
        /\ IF existing_result # 0 /\ ~clear_existing
           THEN /\ results' = rows
                /\ resultResponse' = ResultOutcome("skipped", existing_result, FALSE, ~InRange(p))
           ELSE IF existing_result = 0
           THEN /\ results' = Append(rows, ResultSave(ApplyForm(NewResult(key), p)))
                /\ resultResponse' = ResultOutcome("generated", Len(rows) + 1, FALSE, ~InRange(p))
           ELSE /\ results' = [rows EXCEPT ![existing_result] = ResultSave(ApplyForm(@, p))]
                /\ resultResponse' = ResultOutcome("generated", existing_result, FALSE, ~InRange(p))

feeFrame ==
    UNCHANGED <<feePayments, feeStructures, response, history,
                rankVars, teacherVars, concVars, accessVars>>

apiCreateResult ==
    \E key \in ResultKeys, p \in Payloads :
        ApiCreateResult(key, p) /\ UNCHANGED previous /\ feeFrame

apiUpdateResult ==
    \E pk \in 1..Len(results), p \in Payloads :
        ApiUpdateResult(pk, p) /\ UNCHANGED previous /\ feeFrame

apiPartialUpdateResult ==
    \E pk \in 1..Len(results), f \in ScoreFields, supplied \in BOOLEAN :
        \E value \in (IF f = "exam_score" THEN ExamInputs ELSE CAInputs) :
            ApiPartialUpdateResult(pk, f, value, supplied)
            /\ UNCHANGED previous /\ feeFrame

adminAddResult ==
    \E key \in ResultKeys, p \in AdminForms :
        AdminAddResult(key, p) /\ UNCHANGED previous /\ feeFrame

adminChangeResult ==
    \E pk \in 1..Len(results), p \in AdminForms :
        AdminChangeResult(pk, p) /\ UNCHANGED previous /\ feeFrame

generateSampleResults ==
    \E key \in ResultKeys, clear_existing \in BOOLEAN, p \in SampleScores :
        GenerateSampleResults(key, clear_existing, p)
        /\ UNCHANGED previous /\ feeFrame

\* the raise scenario: a result is created, then one score at a time is patched
createForRaise ==
    \E key \in ResultKeys, p \in Payloads :
        ApiCreateResult(key, p) /\ previous' = <<>> /\ feeFrame

patchForRaise ==
    \E pk \in 1..Len(results), f \in ScoreFields :
        \E value \in (IF f = "exam_score" THEN ExamInputs ELSE CAInputs) :
            /\ ApiPartialUpdateResult(pk, f, value, FALSE)
            /\ previous' = IF resultResponse'.kind = "patched"
                           THEN <<results[pk]>> ELSE <<>>
            /\ feeFrame

(***************************************************************************)
(* Class rankings: get_class_rankings                                      *)
(***************************************************************************)
\* the Class table: primary keys, with (grade, section) of each class
ClassPks == {1, 2, 3}

ClassGrade(c) == IF c = 3 THEN 2 ELSE 1

ClassSection(c) == IF c = 1 THEN "B" ELSE "A"

\* a NULL foreign key to Class or Staff
NoClass == 0

\* the AcademicYear table: primary key of each year
AcademicYearPk(y) == IF y = "y1" THEN 1 ELSE 2

AcademicYearPks == {AcademicYearPk(y) : y \in AcademicYears}

\* the students whose results are ranked, in primary-key order
RankStudents == <<"s1", "s3", "s4", "s5">>

RankSubjects == <<"math", "eng">>

\* Student.current_class of every student; s2 has no class
InitCurrentClass ==
    [s \in {"s1", "s2", "s3", "s4", "s5"} |-> IF s = "s2" THEN NoClass ELSE 1]

\* the query parameters a request may carry ("" is an absent parameter)
IntLiterals == {"1", "2", "9"}

ClassIdParams == {"", "x", "1", "2", "9"}

TermParams == {"", "first", "second", "final"}

YearParams == {"", "x", "1", "2", "9"}

RankingRequests ==
    [class_id : ClassIdParams, term : TermParams, academic_year : YearParams]

\* int(s) succeeds
CanParseInt(s) == s \in IntLiterals

\* int(s)
ParseInt(s) == CASE s = "1" -> 1 [] s = "2" -> 2 [] s = "9" -> 9

RankingResponse(status, error, message, rankings, req) ==
    [status |-> status, error |-> error, message |-> message,
     rankings |-> rankings, total_students |-> Len(rankings),
     class_info |-> req]

NoRankingResponse ==
    RankingResponse(0, "", "", <<>>,
                    [class_id |-> "", term |-> "", academic_year |-> ""])

\* existence looked up before the shape of term is checked
RankingErrorExistenceFirst(req) ==
    IF req.class_id = "" \/ req.term = "" \/ req.academic_year = ""
    THEN <<400, "required">>
    ELSE IF ~CanParseInt(req.class_id) \/ ~CanParseInt(req.academic_year)
    THEN <<400, "integers">>
    ELSE IF ParseInt(req.class_id) \notin ClassPks
    THEN <<404, "class">>
    ELSE IF ParseInt(req.academic_year) \notin AcademicYearPks
    THEN <<404, "academic_year">>
    ELSE IF req.term \notin {"first", "second", "third"}
    THEN <<400, "term">>
    ELSE <<200, "">>

\* the early returns of get_class_rankings, in the order of the code
RankingError(req) ==
    IF req.class_id = "" \/ req.term = "" \/ req.academic_year = ""
    THEN <<400, "required">>
    ELSE IF ~CanParseInt(req.class_id) \/ ~CanParseInt(req.academic_year)
    THEN <<400, "integers">>
    ELSE IF req.term \notin {"first", "second", "third"}
    THEN <<400, "term">>
    ELSE IF ParseInt(req.class_id) \notin ClassPks
    THEN <<404, "class">>
    ELSE IF ParseInt(req.academic_year) \notin AcademicYearPks
    THEN <<404, "academic_year">>
    ELSE <<200, "">>

RECURSIVE MatchingResultsRecorded(_, _, _, _, _)
\* a selection by the class stored on the result row
MatchingResultsRecorded(rows, classes, class_id, term, academic_year) ==
    IF rows = <<>> THEN <<>>
    ELSE LET r == Head(rows)
             rest == MatchingResultsRecorded(Tail(rows), classes, class_id,
                                             term, academic_year)
         IN  IF /\ r.recorded_class = class_id
                /\ r.term = term
                /\ AcademicYearPk(r.academic_year) = academic_year
             THEN <<r>> \o rest
             ELSE rest

RECURSIVE MatchingResults(_, _, _, _, _)
\* Result.objects.filter(student__current_class_id, term, academic_year_id)
MatchingResults(rows, classes, class_id, term, academic_year) ==
    IF rows = <<>> THEN <<>>
    ELSE LET r == Head(rows)
             rest == MatchingResults(Tail(rows), classes, class_id, term,
                                     academic_year)
         IN  IF /\ classes[r.student] = class_id
                /\ r.term = term
                /\ AcademicYearPk(r.academic_year) = academic_year
             THEN <<r>> \o rest
             ELSE rest

RECURSIVE StudentOrder(_)
\* the keys of student_averages, in the order the loop first meets them
StudentOrder(rows) ==
    IF rows = <<>> THEN <<>>
    ELSE LET before == StudentOrder(SubSeq(rows, 1, Len(rows) - 1))
             s == rows[Len(rows)].student
         IN  IF \E i \in 1..Len(before) : before[i] = s
             THEN before
             ELSE Append(before, s)

RECURSIVE SumOf(_, _, _)
\* the running "+=" of one column over the rows of one student
SumOf(rows, s, column) ==
    IF rows = <<>> THEN 0
    ELSE (IF Head(rows).student = s THEN Head(rows)[column] ELSE 0)
         + SumOf(Tail(rows), s, column)

\* round(x, 2) of a Decimal: num / den to the nearest unit, ties to even
RoundHalfEven(num, den) ==
    LET q == num \div den
        r == num % den
    IN  IF 2 * r > den \/ (2 * r = den /\ q % 2 = 1) THEN q + 1 ELSE q

\* an average rounded to a whole percent
AveragePercentageWhole(total_weighted_score, total_max_score) ==
    IF total_max_score > 0
    THEN 100 * RoundHalfEven(total_weighted_score, total_max_score)
    ELSE 0

\* average_percentage, in hundredths of a percent
AveragePercentage(total_weighted_score, total_max_score) ==
    IF total_max_score > 0
    THEN RoundHalfEven(total_weighted_score * 100, total_max_score)
    ELSE 0

\* one entry of student_averages after the grouping loop and the average
StudentData(rows, s) ==
    LET total_weighted_score == SumOf(rows, s, "marks_obtained")
        total_max_score == SumOf(rows, s, "total_marks")
    IN  [student_id |-> s,
         total_weighted_score |-> total_weighted_score,
         total_max_score |-> total_max_score,
         subject_count |-> Cardinality({i \in 1..Len(rows) : rows[i].student = s}),
         average_percentage |->
             AveragePercentage(total_weighted_score, total_max_score)]

\* rankings_list before the sort
RankingsList(rows) ==
    LET order == StudentOrder(rows)
    IN  [i \in 1..Len(order) |-> StudentData(rows, order[i])]

\* list.sort(key=average_percentage, reverse=True) places x: the sort is
\* stable, so x goes behind every entry that is not below it
InsertSorted(sorted, x) ==
    LET notBelow == {i \in 1..Len(sorted) :
                        sorted[i].average_percentage >= x.average_percentage}
        k == Cardinality(notBelow)
    IN  SubSeq(sorted, 1, k) \o <<x>> \o SubSeq(sorted, k + 1, Len(sorted))

RECURSIVE SortDescending(_)
SortDescending(list) ==
    IF list = <<>> THEN <<>>
    ELSE InsertSorted(SortDescending(SubSeq(list, 1, Len(list) - 1)),
                      list[Len(list)])

\* the 1-based indexes at which the loop sees a lower average than before
Drops(list, i) ==
    {j \in 2..i : list[j].average_percentage < list[j - 1].average_percentage}

\* positions that count the distinct averages above
PositionDense(list, i) == 1 + Cardinality(Drops(list, i))

\* positions that ignore ties
PositionSequential(list, i) == i

\* current_position when the loop reaches the entry at 1-based index i
Position(list, i) ==
    LET drops == Drops(list, i)
    IN  IF drops = {} THEN 1 ELSE CHOOSE j \in drops : \A k \in drops : k <= j

\* the position loop
AssignPositions(list) ==
    [i \in 1..Len(list) |->
        [student_id |-> list[i].student_id,
         total_weighted_score |-> list[i].total_weighted_score,
         total_max_score |-> list[i].total_max_score,
         subject_count |-> list[i].subject_count,
         average_percentage |-> list[i].average_percentage,
         position |-> Position(list, i)]]

\* an empty selection answered as an error
NoResultsAsNotFound(req) ==
    RankingResponse(404, "results", "", <<>>, req)

\* the response when no result matches
NoResultsResponse(req) ==
    RankingResponse(200, "", "No results found for the specified criteria",
                    <<>>, req)

\* the response of get_class_rankings
Rankings(rows, classes, req) ==
    LET err == RankingError(req)
    IN  IF err[1] # 200
        THEN RankingResponse(err[1], err[2], "", <<>>, req)
        ELSE LET matching == MatchingResults(rows, classes,
                                             ParseInt(req.class_id), req.term,
                                             ParseInt(req.academic_year))
             IN  IF matching = <<>>
                 THEN NoResultsResponse(req)
                 ELSE RankingResponse(200, "", "",
                          AssignPositions(SortDescending(RankingsList(matching))),
                          req)

GetClassRankings(req) ==
    /\ rankingResponse' = Rankings(results, currentClass, req)
    /\ UNCHANGED <<currentClass, results>>

\* the rows of a mark sheet: scores that total 90.00, 85.00 and 40.01
RankScores ==
    <<[ca1_score |-> 1000, ca2_score |-> 1000, ca3_score |-> 1000,
       ca4_score |-> 1000, exam_score |-> 5000],
      [ca1_score |-> 1000, ca2_score |-> 1000, ca3_score |-> 1000,
       ca4_score |-> 1000, exam_score |-> 4500],
      [ca1_score |-> 1000, ca2_score |-> 1000, ca3_score |-> 1000,
       ca4_score |-> 1000, exam_score |-> 1]>>

\* the (student, subject) cells of the first-term mark sheet of year y1
RankCells ==
    [i \in 1..(Len(RankStudents) * Len(RankSubjects)) |->
        [student |-> RankStudents[((i - 1) \div Len(RankSubjects)) + 1],
         subject |-> RankSubjects[((i - 1) % Len(RankSubjects)) + 1],
         academic_year |-> "y1", term |-> "first"]]

RECURSIVE MarkSheet(_, _)
\* the Result table after the cells marked in sheet were recorded
MarkSheet(sheet, i) ==
    IF i > Len(RankCells) THEN <<>>
    ELSE (IF sheet[i] = 0 THEN <<>>
          ELSE <<ResultSave(ApplyValidated(NewResult(RankCells[i]),
                                           RankScores[sheet[i]]))>>)
         \o MarkSheet(sheet, i + 1)

MarkSheets ==
    {sheet \in [1..Len(RankCells) -> 0..Len(RankScores)] :
        Cardinality({i \in 1..Len(RankCells) : sheet[i] # 0}) <= MaxRankRows}

getClassRankings ==
    \E req \in RankingRequests :
        /\ RankingError(req)[1] = 200
        /\ GetClassRankings(req)
        /\ UNCHANGED <<feePayments, feeStructures, response, history,
                       resultResponse, previous, teacherVars, concVars, accessVars>>

getClassRankingsAny ==
    \E req \in RankingRequests :
        /\ GetClassRankings(req)
        /\ UNCHANGED <<feePayments, feeStructures, response, history,
                       resultResponse, previous, teacherVars, concVars, accessVars>>

\* the students who change class in the transfer scenario
TransferStudents == {"s4", "s5"}

\* Result.recorded_class of every row: the admin form requires a class and
\* the API serializer has no such field, which leaves the column NULL
WithRecordedClass(rows, classes) ==
    [i \in 1..Len(rows) |->
        [f \in (DOMAIN rows[i]) \cup {"recorded_class"} |->
            IF f = "recorded_class" THEN classes[rows[i].student]
            ELSE rows[i][f]]]

\* the mark sheets of the transfer scenario: results of the students who
\* change class
TransferSheets ==
    {sheet \in [1..Len(RankCells) -> 0..Len(RankScores)] :
        /\ \A i \in 1..Len(RankCells) :
              sheet[i] # 0 => RankCells[i].student \in TransferStudents
        /\ Cardinality({i \in 1..Len(RankCells) : sheet[i] # 0})
              <= MaxTransferRows}

\* PATCH /students/<pk>/ by an administrator (ModelViewSet.partial_update):
\* current_class becomes the given class or NULL
SetCurrentClass(student, class) ==
    /\ currentClass' = IF student \in DOMAIN currentClass
                       THEN [currentClass EXCEPT ![student] = class]
                       ELSE currentClass
    /\ UNCHANGED <<results, rankingResponse>>

\* StudentAdmin.remove_from_class: queryset.update(current_class=None)
RemoveFromClass(queryset) ==
    /\ currentClass' = [s \in DOMAIN currentClass |->
                            IF s \in queryset THEN NoClass ELSE currentClass[s]]
    /\ UNCHANGED <<results, rankingResponse>>

\* Class.Meta.ordering = ['grade', 'section']
ClassesByGradeSection == <<2, 1, 3>>

RECURSIVE InOrder(_, _)
\* the members of a selection, in the order of a queryset
InOrder(order, selection) ==
    IF order = <<>> THEN <<>>
    ELSE (IF Head(order) \in selection THEN <<Head(order)>> ELSE <<>>)
         \o InOrder(Tail(order), selection)

\* Student.objects, in primary-key order
StudentsByPk == <<"s1", "s2", "s3", "s4", "s5">>

\* Class.academic_year, by name: every class belongs to year y1
ClassYear(c) == "y1"

\* manage.py assign_students_to_classes --grade [--academic-year] [--dry-run]:
\* the students without class are dealt round-robin over the classes of the
\* grade in section order; grade 0 is an absent --grade, "" an absent
\* --academic-year
AssignStudentsToClasses(grade, academic_year_name, dry_run) ==
    LET students_to_assign ==
            InOrder(StudentsByPk,
                    {s \in DOMAIN currentClass : currentClass[s] = NoClass})
        available_classes ==
            InOrder(ClassesByGradeSection,
                    {c \in ClassPks :
                        /\ ClassGrade(c) = grade
                        /\ academic_year_name # "" =>
                               ClassYear(c) = academic_year_name})
        assigned(s) ==
            LET class_index ==
                    CHOOSE i \in 1..Len(students_to_assign) :
                        students_to_assign[i] = s
            IN  available_classes[((class_index - 1) % Len(available_classes)) + 1]
    IN  /\ currentClass' =
               IF grade = 0 \/ available_classes = <<>> \/ dry_run
               THEN currentClass
               ELSE [s \in DOMAIN currentClass |->
                        IF currentClass[s] = NoClass THEN assigned(s)
                        ELSE currentClass[s]]
        /\ UNCHANGED <<results, rankingResponse>>

rankFrame ==
    UNCHANGED <<feePayments, feeStructures, response, history,
                resultResponse, previous, teacherVars, concVars, accessVars>>

setCurrentClass ==
    \E student \in TransferStudents, class \in ClassPks \cup {NoClass} :
        SetCurrentClass(student, class) /\ rankFrame

removeFromClass ==
    \E queryset \in (SUBSET TransferStudents) \ {{}} :
        RemoveFromClass(queryset) /\ rankFrame

assignStudentsToClasses ==
    \E grade \in {0, 1, 2, 5}, academic_year_name \in {"", "y1", "y2"},
       dry_run \in BOOLEAN :
        AssignStudentsToClasses(grade, academic_year_name, dry_run) /\ rankFrame

(***************************************************************************)
(* Class teachers                                                          *)
(***************************************************************************)
\* the primary keys of the Staff rows before any is deleted; 9 names a row
\* that never existed
StaffPks == {1, 2, 3}

\* a NULL Class.class_teacher
NoStaff == 0

\* Staff.objects.order_by('joining_date')
StaffByJoiningDate == <<3, 1, 2>>

\* Staff without Meta.ordering: .first() reads in primary-key order
StaffByPk == <<1, 2, 3>>

\* the admin change list of Staff, ordered by -pk
StaffByPkDescending == <<3, 2, 1>>

\* Class.objects.filter(class_teacher=staff)
ClassesOf(teachers, staff) == {c \in ClassPks : teachers[c] = staff}

\* Class.objects.filter(class_teacher__isnull=True)
ClassesWithoutTeacher(teachers) == {c \in ClassPks : teachers[c] = NoStaff}

\* Staff.objects.filter(class_teacher__isnull=True)
AvailableStaff(teachers) == {s \in staffTable : ClassesOf(teachers, s) = {}}

\* a class_teacher column without the unique index
ClassTeacherNotUnique(teachers, c, staff) == FALSE

\* the unique index of the OneToOneField Class.class_teacher refuses the row
ClassTeacherTaken(teachers, c, staff) ==
    /\ staff # NoStaff
    /\ \E other \in ClassPks \ {c} : teachers[other] = staff

TeacherOutcome(op, kind) == [op |-> op, kind |-> kind]

NoTeacherResponse == TeacherOutcome("none", "none")

\* an assignment that leaves the staff member's other classes as they are
AssignClassKeepsOthers(staff, class_id) ==
    IF staff \notin staffTable
    THEN /\ teacherResponse' = TeacherOutcome("assign_class", "staff_not_found")
         /\ UNCHANGED classTeacher
    ELSE IF class_id = NoClass
    THEN /\ classTeacher' = [c \in ClassPks |->
                                IF classTeacher[c] = staff THEN NoStaff
                                ELSE classTeacher[c]]
         /\ teacherResponse' =
                TeacherOutcome("assign_class", "related_object_does_not_exist")
    ELSE IF class_id \notin ClassPks
    THEN /\ teacherResponse' = TeacherOutcome("assign_class", "not_found")
         /\ UNCHANGED classTeacher
    ELSE IF ClassTeacherTaken(classTeacher, class_id, staff)
         THEN /\ UNCHANGED classTeacher
              /\ teacherResponse' =
                     TeacherOutcome("assign_class", "integrity_error")
         ELSE /\ classTeacher' = [classTeacher EXCEPT ![class_id] = staff]
              /\ teacherResponse' = TeacherOutcome("assign_class", "assigned")

\* POST /staff/<pk>/assign-class/ ; class_id 0 is an empty class_id. After
\* the unassignment the response is built by StaffSerializer, whose
\* get_assigned_classes reads staff.class_teacher: the staff member has no
\* class by then, the accessor raises RelatedObjectDoesNotExist and the
\* request ends in a server error with the assignment already cleared
AssignClass(staff, class_id) ==
    IF staff \notin staffTable
    THEN /\ teacherResponse' = TeacherOutcome("assign_class", "staff_not_found")
         /\ UNCHANGED classTeacher
    ELSE IF class_id = NoClass
    THEN /\ classTeacher' = [c \in ClassPks |->
                                IF classTeacher[c] = staff THEN NoStaff
                                ELSE classTeacher[c]]
         /\ teacherResponse' =
                TeacherOutcome("assign_class", "related_object_does_not_exist")
    ELSE IF class_id \notin ClassPks
    THEN /\ teacherResponse' = TeacherOutcome("assign_class", "not_found")
         /\ UNCHANGED classTeacher
    ELSE LET cleared == [c \in ClassPks |->
                            IF classTeacher[c] = staff /\ c # class_id
                            THEN NoStaff ELSE classTeacher[c]]
         IN  IF ClassTeacherTaken(cleared, class_id, staff)
             THEN /\ classTeacher' = cleared
                  /\ teacherResponse' =
                         TeacherOutcome("assign_class", "integrity_error")
             ELSE /\ classTeacher' = [cleared EXCEPT ![class_id] = staff]
                  /\ teacherResponse' = TeacherOutcome("assign_class", "assigned")

\* assign_class_teachers --staff-id --class-id: the reverse accessor
\* staff.class_teacher raises RelatedObjectDoesNotExist for a staff member
\* without a class, so the command stops before it assigns
AssignSpecificStaffToClass(staff, class, dry_run) ==
    /\ UNCHANGED classTeacher
    /\ teacherResponse' =
           TeacherOutcome("assign_specific",
               IF staff \notin staffTable THEN "staff_not_found"
               ELSE IF class \notin ClassPks THEN "class_not_found"
               ELSE IF classTeacher[class] # NoStaff THEN "class_has_teacher"
               ELSE IF ClassesOf(classTeacher, staff) # {} THEN "staff_has_class"
               ELSE "related_object_does_not_exist")

\* the (staff, class) pairs of auto_assign_teachers
Assignments(teachers) ==
    LET classes == InOrder(ClassesByGradeSection, ClassesWithoutTeacher(teachers))
        staff == InOrder(StaffByJoiningDate, AvailableStaff(teachers))
        n == IF Len(classes) < Len(staff) THEN Len(classes) ELSE Len(staff)
    IN  [i \in 1..n |-> <<staff[i], classes[i]>>]

RECURSIVE SaveAll(_, _)
\* class_obj.save() for each pair, until one is refused
SaveAll(teachers, assignments) ==
    IF assignments = <<>> THEN <<teachers, "assigned">>
    ELSE LET staff == Head(assignments)[1]
             class == Head(assignments)[2]
         IN  IF ClassTeacherTaken(teachers, class, staff)
             THEN <<teachers, "integrity_error">>
             ELSE SaveAll([teachers EXCEPT ![class] = staff], Tail(assignments))

\* assign_class_teachers --auto-assign
AutoAssignTeachers(dry_run) ==
    IF ClassesWithoutTeacher(classTeacher) = {}
    THEN /\ teacherResponse' = TeacherOutcome("auto_assign", "all_assigned")
         /\ UNCHANGED classTeacher
    ELSE IF AvailableStaff(classTeacher) = {}
    THEN /\ teacherResponse' = TeacherOutcome("auto_assign", "no_staff")
         /\ UNCHANGED classTeacher
    ELSE IF dry_run
    THEN /\ teacherResponse' = TeacherOutcome("auto_assign", "dry_run")
         /\ UNCHANGED classTeacher
    ELSE LET saved == SaveAll(classTeacher, Assignments(classTeacher))
         IN  /\ classTeacher' = saved[1]
             /\ teacherResponse' = TeacherOutcome("auto_assign", saved[2])

\* ClassAdmin.assign_class_teacher on the selected classes
AdminAssignClassTeacher(selection) ==
    LET class == InOrder(ClassesByGradeSection, selection)[1]
        available == InOrder(StaffByPk, AvailableStaff(classTeacher))
    IN  IF Cardinality(selection) > 1
        THEN /\ teacherResponse' = TeacherOutcome("class_assign", "select_one")
             /\ UNCHANGED classTeacher
        ELSE IF classTeacher[class] # NoStaff
        THEN /\ teacherResponse' = TeacherOutcome("class_assign", "class_has_teacher")
             /\ UNCHANGED classTeacher
        ELSE IF available = <<>>
        THEN /\ teacherResponse' = TeacherOutcome("class_assign", "no_staff")
             /\ UNCHANGED classTeacher
        ELSE IF ClassTeacherTaken(classTeacher, class, available[1])
        THEN /\ teacherResponse' = TeacherOutcome("class_assign", "integrity_error")
             /\ UNCHANGED classTeacher
        ELSE /\ classTeacher' = [classTeacher EXCEPT ![class] = available[1]]
             /\ teacherResponse' = TeacherOutcome("class_assign", "assigned")

\* ClassAdmin.remove_class_teacher on the selected classes
AdminRemoveClassTeacher(selection) ==
    /\ classTeacher' = [c \in ClassPks |->
                           IF c \in selection THEN NoStaff ELSE classTeacher[c]]
    /\ teacherResponse' = TeacherOutcome("class_remove", "removed")

\* StaffAdmin.assign_to_class on the selected staff: the action does not
\* look at the class the staff member already has
AdminAssignToClass(selection) ==
    LET staff == InOrder(StaffByPkDescending, selection)[1]
        available == InOrder(ClassesByGradeSection,
                             ClassesWithoutTeacher(classTeacher))
    IN  IF Cardinality(selection) > 1
        THEN /\ teacherResponse' = TeacherOutcome("staff_assign", "select_one")
             /\ UNCHANGED classTeacher
        ELSE IF available = <<>>
        THEN /\ teacherResponse' = TeacherOutcome("staff_assign", "no_class")
             /\ UNCHANGED classTeacher
        ELSE IF ClassTeacherTaken(classTeacher, available[1], staff)
        THEN /\ teacherResponse' = TeacherOutcome("staff_assign", "integrity_error")
             /\ UNCHANGED classTeacher
        ELSE /\ classTeacher' = [classTeacher EXCEPT ![available[1]] = staff]
             /\ teacherResponse' = TeacherOutcome("staff_assign", "assigned")

\* the loop of remove_from_classes stops at the first staff member. Without
\* a class, "if staff.class_teacher" raises RelatedObjectDoesNotExist. With a
\* class, "staff.class_teacher.class_teacher = None" sets the field on the
\* cached Class and empties the cache of the reverse accessor on the staff
\* object, so the staff.class_teacher of the save line raises
\* RelatedObjectDoesNotExist before save() is called: nothing is written
RemoveEach(teachers, staff) ==
    IF staff = <<>> THEN <<teachers, "removed">>
    ELSE IF ClassesOf(teachers, Head(staff)) = {}
    THEN <<teachers, "related_object_does_not_exist">>
    ELSE <<teachers, "related_object_does_not_exist">>

\* StaffAdmin.remove_from_classes on the selected staff
AdminRemoveFromClasses(selection) ==
    LET removed == RemoveEach(classTeacher,
                              InOrder(StaffByPkDescending, selection))
    IN  /\ classTeacher' = removed[1]
        /\ teacherResponse' = TeacherOutcome("staff_remove", removed[2])

\* on_delete=SET_NULL of Result.uploaded_by (a mark sheet that was not
\* recorded through the API of a staff member has no uploader on any row)
WithoutUploader(rows, staff) ==
    [i \in 1..Len(rows) |->
        IF "uploaded_by" \in DOMAIN rows[i] /\ rows[i].uploaded_by = staff
        THEN [rows[i] EXCEPT !.uploaded_by = NoStaff]
        ELSE rows[i]]

\* DELETE /staff/<pk>/ (ModelViewSet.destroy), and the deletion of the
\* staff member's User, which cascades to the Staff row: on_delete=SET_NULL
\* empties class_teacher of the class the staff member had and uploaded_by
\* of the results the staff member recorded
DestroyStaff(staff) ==
    IF staff \notin staffTable
    THEN /\ teacherResponse' = TeacherOutcome("destroy", "staff_not_found")
         /\ UNCHANGED <<classTeacher, staffTable, results>>
    ELSE /\ staffTable' = staffTable \ {staff}
         /\ classTeacher' = [c \in ClassPks |->
                                IF classTeacher[c] = staff THEN NoStaff
                                ELSE classTeacher[c]]
         /\ results' = WithoutUploader(results, staff)
         /\ teacherResponse' = TeacherOutcome("destroy", "deleted")

teacherFrame ==
    UNCHANGED <<feePayments, feeStructures, response, history, resultResponse,
                previous, rankVars, concVars, accessVars>>

assignClass ==
    \E staff \in StaffPks, class_id \in ClassPks \cup {NoClass, 9} :
        AssignClass(staff, class_id) /\ UNCHANGED <<staffTable, results>> /\ teacherFrame

assignSpecificStaffToClass ==
    \E staff \in StaffPks \cup {9}, class \in ClassPks \cup {9},
       dry_run \in BOOLEAN :
        AssignSpecificStaffToClass(staff, class, dry_run) /\ UNCHANGED <<staffTable, results>> /\ teacherFrame

autoAssignTeachers ==
    \E dry_run \in BOOLEAN : AutoAssignTeachers(dry_run) /\ UNCHANGED <<staffTable, results>> /\ teacherFrame

adminAssignClassTeacher ==
    \E selection \in (SUBSET ClassPks) \ {{}} :
        AdminAssignClassTeacher(selection) /\ UNCHANGED <<staffTable, results>> /\ teacherFrame

adminRemoveClassTeacher ==
    \E selection \in (SUBSET ClassPks) \ {{}} :
        AdminRemoveClassTeacher(selection) /\ UNCHANGED <<staffTable, results>> /\ teacherFrame

adminAssignToClass ==
    \E selection \in (SUBSET staffTable) \ {{}} :
        AdminAssignToClass(selection) /\ UNCHANGED <<staffTable, results>> /\ teacherFrame

adminRemoveFromClasses ==
    \E selection \in (SUBSET staffTable) \ {{}} :
        AdminRemoveFromClasses(selection) /\ UNCHANGED <<staffTable, results>> /\ teacherFrame

destroyStaff ==
    \E staff \in StaffPks : DestroyStaff(staff) /\ teacherFrame

(***************************************************************************)
(* Concurrent payments: two requests of FeePaymentViewSet.create whose     *)
(* queries interleave (the handler opens no transaction and takes no lock) *)
(***************************************************************************)
Workers == {1, 2}

\* the payments two clients send for student s1 at the same time
ConcurrentRequests ==
    {req \in Requests :
        /\ req.student = "s1"
        /\ req.academic_year = "y1"
        /\ req.fee_structure # None
        /\ req.amount_paid >= 0}

NoRequest ==
    [student |-> "s1", academic_year |-> None, term |-> "first",
     fee_structure |-> None, amount_paid |-> 0, total_amount |-> 0,
     transaction_id |-> "", payment_method |-> "", remarks |-> "",
     due_date |-> "d1"]

NoRow ==
    [student |-> None, academic_year |-> None, term |-> None,
     amount_paid |-> 0, total_amount |-> 0, status |-> None,
     transaction_id |-> "", payment_method |-> "", remarks |-> "",
     due_date |-> None]

\* a worker between requests
IdleWorker ==
    [pc |-> "idle", data |-> NoRequest, full_amount |-> 0, existing |-> 0,
     read |-> NoRow, obj |-> NoRow, kind |-> "none"]

InitProcs == [w \in Workers |-> IdleWorker]

\* the row a first payment of 100 against fee structure fs1 left behind
LedgerRow ==
    NewRow(InitFeeStructures, InitFeeStructures["fs1"].amount,
           [NoRequest EXCEPT !.fee_structure = "fs1", !.amount_paid = 100])

\* serializer.is_valid(raise_exception=True); validated_data
Validate(w, req) ==
    /\ procs[w].pc = "idle"
    /\ IF SerializerIsValid(feePayments, req)
       THEN procs' = [procs EXCEPT ![w].pc = "validated",
                                   ![w].data = ValidatedData(req)]
       ELSE procs' = [procs EXCEPT ![w].pc = "done",
                                   ![w].data = ValidatedData(req),
                                   ![w].kind = "validation_error"]
    /\ UNCHANGED <<feePayments, saveOrder>>

\* the queries of the handler: the full amount and the existing row; the
\* handler then sets the fields of the instance it holds
Lookup(w) ==
    /\ procs[w].pc = "validated"
    /\ LET data == procs[w].data
           full_amount == FullAmount(feeStructures, data)
           existing == Existing(feePayments, data)
       IN  procs' = [procs EXCEPT
               ![w].pc = "looked_up",
               ![w].full_amount = full_amount,
               ![w].existing = existing,
               ![w].read = IF existing # 0 THEN feePayments[existing] ELSE NoRow,
               ![w].obj = IF existing # 0
                          THEN UpdatedRow(feePayments[existing], full_amount, data)
                          ELSE NewRow(feeStructures, full_amount, data)]
    /\ UNCHANGED <<feePayments, saveOrder>>

\* the unique index of transaction_id on UPDATE of row pk
UpdateViolatesUnique(rows, pk, row) ==
    \E i \in 1..Len(rows) :
        i # pk /\ rows[i].transaction_id = row.transaction_id

\* a save that writes the status column only
SavedRowStatusOnly(current, obj) == [current EXCEPT !.status = obj.status]

\* Model.save(): the UPDATE sets every column from the instance
SavedRow(current, obj) == obj

\* existing.save() or FeePayment.objects.create(...)
Write(w) ==
    /\ procs[w].pc = "looked_up"
    /\ LET pk == procs[w].existing
           obj == procs[w].obj
       IN  IF pk # 0
           THEN IF UpdateViolatesUnique(feePayments, pk, obj)
                THEN /\ procs' = [procs EXCEPT ![w].pc = "done",
                                               ![w].kind = "integrity_error"]
                     /\ UNCHANGED <<feePayments, saveOrder>>
                ELSE /\ feePayments' = [feePayments EXCEPT
                                           ![pk] = SavedRow(feePayments[pk], obj)]
                     /\ procs' = [procs EXCEPT ![w].pc = "done",
                                               ![w].kind = "updated"]
                     /\ saveOrder' = Append(saveOrder, w)
           ELSE IF InsertViolatesUnique(feePayments, obj)
                THEN /\ procs' = [procs EXCEPT ![w].pc = "done",
                                               ![w].kind = "integrity_error"]
                     /\ UNCHANGED <<feePayments, saveOrder>>
                ELSE /\ feePayments' = Append(feePayments, obj)
                     /\ procs' = [procs EXCEPT ![w].pc = "done",
                                               ![w].kind = "created"]
                     /\ saveOrder' = Append(saveOrder, w)

concFrame ==
    UNCHANGED <<feeStructures, response, history, resultVars, rankVars,
                teacherVars, accessVars>>

validate ==
    \E w \in Workers, req \in ConcurrentRequests : Validate(w, req) /\ concFrame

lookup == \E w \in Workers : Lookup(w) /\ concFrame

write == \E w \in Workers : Write(w) /\ concFrame

(***************************************************************************)
(* Principals, listings (get_queryset) and account creation                *)
(***************************************************************************)
\* the users who send requests; anon carries no valid token
Principals ==
    {"admin1", "mgmt1", "staff1", "stud1", "stud2", "par1", "par2", "par3",
     "anon"}

\* User.role
Role(u) ==
    CASE u = "admin1" -> "admin"
      [] u = "mgmt1" -> "management"
      [] u = "staff1" -> "staff"
      [] u \in {"stud1", "stud2"} -> "student"
      [] u \in {"par1", "par2", "par3"} -> "parent"
      [] OTHER -> "none"

\* permissions.IsAuthenticated
IsAuthenticated(u) == u # "anon"

\* user.student_profile exists: stud1 is the user of student s1, as long as
\* that Student row exists; stud2 is a student user without a Student row
HasStudentProfile(u) == u = "stud1" /\ "s1" \in DOMAIN currentClass

StudentProfile(u) == "s1"

\* user.staff_profile
HasStaffProfile(u) == u = "staff1" /\ 1 \in staffTable

StaffProfile(u) == 1

\* user.parent_profile exists: par3 is a parent user without a Parent row
HasParentProfile(u) == u \in {"par1", "par2"}

\* parent_profile.children.all(): par2 has no children
Children(u) ==
    IF u = "par1" THEN {"s1", "s4"} \cap DOMAIN currentClass ELSE {}

\* Student.objects.all(), by student
AllStudents == DOMAIN currentClass

\* Student.objects.filter(current_class__class_teacher=staff_profile)
TaughtBy(staff) ==
    {st \in AllStudents :
        currentClass[st] # NoClass /\ classTeacher[currentClass[st]] = staff}

\* objects.all(), as primary keys
AllRows(rows) == 1..Len(rows)

\* a student branch that does not filter
OwnRowsUnfiltered(rows, u) == AllRows(rows)

\* the student branch: filter(student=user.student_profile), and none()
\* when the accessor raises
OwnRows(rows, u) ==
    IF ~HasStudentProfile(u) THEN {}
    ELSE {i \in AllRows(rows) : rows[i].student = StudentProfile(u)}

\* the parent branch: filter(student__in=parent_profile.children.all()),
\* and none() when the accessor raises
ChildrenRows(rows, u) ==
    IF ~HasParentProfile(u) THEN {}
    ELSE {i \in AllRows(rows) : rows[i].student \in Children(u)}

\* StudentViewSet.get_queryset; the parent branch reads user.parent_user,
\* an attribute no User has, and the bare except answers none()
StudentQueryset(u) ==
    IF Role(u) \in {"admin", "management"} THEN AllStudents
    ELSE IF Role(u) = "staff"
    THEN (IF HasStaffProfile(u) THEN TaughtBy(StaffProfile(u)) ELSE {})
    ELSE IF Role(u) = "parent" THEN {}
    ELSE IF HasStudentProfile(u) THEN {StudentProfile(u)} ELSE {}

\* ResultViewSet.get_queryset
ResultQueryset(u) ==
    IF Role(u) \in {"admin", "management"} THEN AllRows(results)
    ELSE IF Role(u) = "staff"
    THEN (IF HasStaffProfile(u)
          THEN {i \in AllRows(results) :
                   \/ results[i].uploaded_by = StaffProfile(u)
                   \/ results[i].student \in TaughtBy(StaffProfile(u))}
          ELSE {})
    ELSE IF Role(u) = "student" THEN OwnRows(results, u)
    ELSE IF Role(u) = "parent" THEN ChildrenRows(results, u)
    ELSE {}

\* FeePaymentViewSet.get_queryset
FeePaymentQueryset(u) ==
    IF Role(u) \in {"admin", "management"} THEN AllRows(feePayments)
    ELSE IF Role(u) = "student" THEN OwnRows(feePayments, u)
    ELSE IF Role(u) = "parent" THEN ChildrenRows(feePayments, u)
    ELSE {}

\* AttendanceViewSet.get_queryset
AttendanceQueryset(u) ==
    IF Role(u) \in {"admin", "management"} THEN AllRows(attendance)
    ELSE IF Role(u) = "staff"
    THEN (IF HasStaffProfile(u)
          THEN {i \in AllRows(attendance) :
                   classTeacher[attendance[i].class_period] = StaffProfile(u)}
          ELSE {})
    ELSE IF Role(u) = "student" THEN OwnRows(attendance, u)
    ELSE IF Role(u) = "parent" THEN ChildrenRows(attendance, u)
    ELSE {}

Resources == {"students", "results", "fee_payments", "attendance"}

Queryset(u, resource) ==
    CASE resource = "students" -> StudentQueryset(u)
      [] resource = "results" -> ResultQueryset(u)
      [] resource = "fee_payments" -> FeePaymentQueryset(u)
      [] resource = "attendance" -> AttendanceQueryset(u)

AccessOutcome(op, kind, u, resource, pks) ==
    [op |-> op, kind |-> kind, user |-> u, resource |-> resource, pks |-> pks]

NoAccessResponse == AccessOutcome("none", "none", "anon", "none", {})

\* GET /<resource>/ : ModelViewSet.list over get_queryset
List(u, resource) ==
    /\ accessResponse' =
           IF ~IsAuthenticated(u)
           THEN AccessOutcome("list", "unauthorized", u, resource, {})
           ELSE AccessOutcome("list", "ok", u, resource, Queryset(u, resource))
    /\ UNCHANGED <<attendance, accounts>>

AccountModels == {"user", "student", "staff"}

\* POST /users/, /students/, /staff/ with a valid payload: get_permissions
\* answers [IsAuthenticated()] for the create action. For a Staff row the
\* response is built after the insert by StaffSerializer, whose
\* get_assigned_classes reads the class_teacher accessor of a staff member
\* without class and raises RelatedObjectDoesNotExist: a server error, with
\* the row kept
CreateAccount(u, model) ==
    /\ Len(accounts) < MaxAccounts
    /\ IF ~IsAuthenticated(u)
       THEN /\ accessResponse' =
                   AccessOutcome("create", "unauthorized", u, model, {})
            /\ UNCHANGED accounts
       ELSE /\ accounts' = Append(accounts, [model |-> model, created_by |-> u])
            /\ accessResponse' =
                   AccessOutcome("create",
                                 IF model = "staff"
                                 THEN "related_object_does_not_exist"
                                 ELSE "created",
                                 u, model, {Len(accounts) + 1})
    /\ UNCHANGED attendance

\* IsOwnerOrAdmin.has_object_permission for a row that has a student and no
\* user (FeePayment, Attendance)
MayAccessRecord(u, st) ==
    IF Role(u) \in {"admin", "management"} THEN TRUE
    ELSE IF Role(u) = "staff"
    THEN HasStaffProfile(u) /\ st \in TaughtBy(StaffProfile(u))
    ELSE IF Role(u) = "parent"
    THEN HasParentProfile(u) /\ st \in Children(u)
    ELSE FALSE

\* IsOwnerOrAdmin.has_object_permission for a Student row, which has a user
\* and no student
MayAccessStudent(u, st) ==
    IF Role(u) \in {"admin", "management"} THEN TRUE
    ELSE IF Role(u) = "student"
    THEN HasStudentProfile(u) /\ StudentProfile(u) = st
    ELSE FALSE

\* the answer of a detail route before the handler runs: authentication,
\* get_object over get_queryset, then the object permission
DetailKind(u, found, allowed, done) ==
    IF ~IsAuthenticated(u) THEN "unauthorized"
    ELSE IF ~found THEN "not_found"
    ELSE IF ~allowed THEN "forbidden"
    ELSE done

\* the rows of a table without the row of a primary key
RemoveAt(rows, pk) == SubSeq(rows, 1, pk - 1) \o SubSeq(rows, pk + 1, Len(rows))

\* on_delete=CASCADE of the student foreign key
WithoutStudent(rows, st) == SelectSeq(rows, LAMBDA r : r.student # st)

LedgerOutcome(kind, pk) == [NoResponse EXCEPT !.kind = kind, !.pk = pk]

\* DELETE /fee-payments/<pk>/ : ModelViewSet.destroy
DestroyFeePayment(u, pk) ==
    LET found == pk \in FeePaymentQueryset(u)
        kind == DetailKind(u, found,
                           found /\ MayAccessRecord(u, feePayments[pk].student),
                           "deleted")
    IN  /\ feePayments' = IF kind = "deleted" THEN RemoveAt(feePayments, pk)
                          ELSE feePayments
        /\ response' = LedgerOutcome(kind, pk)
        /\ accessResponse' = AccessOutcome("destroy", kind, u, "fee_payments", {pk})
        /\ UNCHANGED <<results, attendance, currentClass, accounts>>

PaymentStatuses == {PENDING, PAID, OVERDUE, PARTIAL}

\* FeePaymentSerializer on one field of a partial update
PatchValid(field, value) ==
    CASE field = "status" -> value \in PaymentStatuses
      [] field = "student" -> value \in DOMAIN currentClass
      [] OTHER -> TRUE

\* the unique index of (student, academic_year, term) on UPDATE: the
\* serializer has no validator for it, the database raises IntegrityError
UpdateViolatesUniqueTogether(rows, pk, row) ==
    \E i \in 1..Len(rows) :
        /\ i # pk
        /\ row.academic_year # None
        /\ rows[i].student = row.student
        /\ rows[i].academic_year = row.academic_year
        /\ rows[i].term = row.term

\* PATCH /fee-payments/<pk>/ with one field: ModelViewSet.partial_update
\* stores the value as sent; nothing is recomputed
PartialUpdateFeePayment(u, pk, field, value) ==
    LET found == pk \in FeePaymentQueryset(u)
        allowed == found /\ MayAccessRecord(u, feePayments[pk].student)
        kind == DetailKind(u, found, allowed,
                           IF ~PatchValid(field, value) THEN "validation_error"
                           ELSE IF UpdateViolatesUniqueTogether(
                                       feePayments, pk,
                                       [feePayments[pk] EXCEPT ![field] = value])
                           THEN "integrity_error"
                           ELSE "patched")
    IN  /\ feePayments' = IF kind = "patched"
                          THEN [feePayments EXCEPT ![pk][field] = value]
                          ELSE feePayments
        /\ response' = LedgerOutcome(kind, pk)
        /\ accessResponse' = AccessOutcome("patch", kind, u, "fee_payments", {pk})
        /\ UNCHANGED <<results, attendance, currentClass, accounts>>

\* the UniqueTogetherValidator of (student, date, class_period)
AttendanceTaken(rows, row) ==
    \E i \in 1..Len(rows) :
        /\ rows[i].student = row.student
        /\ rows[i].date = row.date
        /\ rows[i].class_period = row.class_period

\* POST /attendance/ : ModelViewSet.create, open to every authenticated
\* principal
CreateAttendance(u, row) ==
    LET kind == IF ~IsAuthenticated(u) THEN "unauthorized"
                ELSE IF \/ row.student \notin DOMAIN currentClass
                        \/ AttendanceTaken(attendance, row)
                THEN "validation_error"
                ELSE "created"
    IN  /\ attendance' = IF kind = "created" THEN Append(attendance, row)
                         ELSE attendance
        /\ accessResponse' =
               AccessOutcome("create", kind, u, "attendance",
                             IF kind = "created" THEN {Len(attendance) + 1}
                             ELSE {})
        /\ UNCHANGED <<feePayments, response, results, currentClass, accounts>>

AttendanceStatuses == {"present", "absent", "late", "excused"}

AttendanceFields == {"student", "date", "status", "class_period"}

\* the row a PUT or PATCH of data leaves: the fields data carries are
\* stored as sent, the others keep their value
UpdatedAttendance(row, data) ==
    [f \in DOMAIN row |-> IF f \in DOMAIN data THEN data[f] ELSE row[f]]

\* AttendanceSerializer on an update: PUT wants every required field, a
\* field that is sent must be valid, and the UniqueTogetherValidator looks
\* at the other rows
AttendanceUpdateValid(rows, pk, data, partial) ==
    /\ partial \/ AttendanceFields \subseteq DOMAIN data
    /\ "student" \in DOMAIN data => data.student \in DOMAIN currentClass
    /\ "status" \in DOMAIN data => data.status \in AttendanceStatuses
    /\ "class_period" \in DOMAIN data => data.class_period \in ClassPks
    /\ ~AttendanceTaken(RemoveAt(rows, pk), UpdatedAttendance(rows[pk], data))

\* PUT (partial FALSE) and PATCH (partial TRUE) /attendance/<pk>/ :
\* ModelViewSet.update and partial_update
UpdateAttendance(u, pk, data, partial) ==
    LET found == pk \in AttendanceQueryset(u)
        allowed == found /\ MayAccessRecord(u, attendance[pk].student)
        kind == DetailKind(u, found, allowed,
                           IF AttendanceUpdateValid(attendance, pk, data, partial)
                           THEN "updated" ELSE "validation_error")
    IN  /\ attendance' = IF kind = "updated"
                         THEN [attendance EXCEPT
                                  ![pk] = UpdatedAttendance(attendance[pk], data)]
                         ELSE attendance
        /\ accessResponse' = AccessOutcome("update", kind, u, "attendance", {pk})
        /\ UNCHANGED <<feePayments, response, results, currentClass, accounts>>

\* DELETE /attendance/<pk>/ : ModelViewSet.destroy
DestroyAttendance(u, pk) ==
    LET found == pk \in AttendanceQueryset(u)
        kind == DetailKind(u, found,
                           found /\ MayAccessRecord(u, attendance[pk].student),
                           "deleted")
    IN  /\ attendance' = IF kind = "deleted" THEN RemoveAt(attendance, pk)
                         ELSE attendance
        /\ accessResponse' = AccessOutcome("destroy", kind, u, "attendance", {pk})
        /\ UNCHANGED <<feePayments, response, results, currentClass, accounts>>

\* DELETE /students/<pk>/ : ModelViewSet.destroy (the deletion of the
\* student's User cascades to the same rows). The Result, FeePayment and
\* Attendance rows of the student go with the Student row
DestroyStudent(u, st) ==
    LET found == st \in StudentQueryset(u)
        kind == DetailKind(u, found, found /\ MayAccessStudent(u, st), "deleted")
    IN  /\ IF kind = "deleted"
           THEN /\ currentClass' = [x \in (DOMAIN currentClass) \ {st} |->
                                       currentClass[x]]
                /\ results' = WithoutStudent(results, st)
                /\ feePayments' = WithoutStudent(feePayments, st)
                /\ attendance' = WithoutStudent(attendance, st)
           ELSE UNCHANGED <<currentClass, results, feePayments, attendance>>
        /\ accessResponse' = AccessOutcome("destroy", kind, u, "students", {st})
        /\ UNCHANGED <<response, accounts>>

\* what a write of the access section leaves alone besides the tables it
\* names itself
writeFrame ==
    UNCHANGED <<feeStructures, history, resultResponse, previous,
                rankingResponse, teacherVars, concVars>>

accessFrame ==
    UNCHANGED <<feePayments, feeStructures, response, history, resultVars,
                rankVars, teacherVars, concVars>>

listRecords ==
    \E u \in Principals, resource \in Resources : List(u, resource) /\ accessFrame

\* the primary keys a detail route is asked for
DetailPks == 1..2

\* the principals who send writes: one of every role, and nobody
Writers == {"admin1", "staff1", "stud1", "par1", "anon"}

destroyFeePayment ==
    \E u \in Writers, pk \in DetailPks : DestroyFeePayment(u, pk) /\ writeFrame

\* the single-field payloads of a partial update
LedgerPatches ==
    {<<"amount_paid", 0>>, <<"total_amount", 50>>, <<"status", PENDING>>,
     <<"status", "settled">>, <<"student", "s2">>}

\* the attendance rows a principal sends
AttendancePayloads ==
    [student : {"s1"}, date : {"d1"}, status : {"present"},
     class_period : {1}]

createAttendance ==
    \E u \in Writers, row \in AttendancePayloads :
        CreateAttendance(u, row) /\ writeFrame

\* the bodies of the attendance updates: two PATCHes, a complete PUT and a
\* PUT without its required fields
AttendanceUpdates ==
    {<<[status |-> "absent"], TRUE>>,
     <<[student |-> "s4"], TRUE>>,
     <<[student |-> "s1", date |-> "d1", status |-> "absent", class_period |-> 2],
       FALSE>>,
     <<[status |-> "absent"], FALSE>>}

updateAttendance ==
    \E u \in Writers, pk \in DetailPks, update \in AttendanceUpdates :
        UpdateAttendance(u, pk, update[1], update[2]) /\ writeFrame

destroyAttendance ==
    \E u \in Writers, pk \in DetailPks : DestroyAttendance(u, pk) /\ writeFrame

destroyStudent ==
    \E u \in Writers, st \in {"s1", "s4"} :
        DestroyStudent(u, st) /\ writeFrame

\* DELETE /students/<pk>/ by an administrator
adminDestroyStudent ==
    \E st \in TransferStudents : DestroyStudent("admin1", st) /\ writeFrame

createAccount ==
    \E u \in Principals, model \in AccountModels :
        CreateAccount(u, model) /\ accessFrame

\* the mark sheet of the listings: a mathematics result of s1, s4 and s5
AccessSheets ==
    {sheet \in [1..Len(RankCells) -> {0, 1}] :
        \A i \in 1..Len(RankCells) :
            sheet[i] # 0 <=> /\ RankCells[i].subject = "math"
                             /\ RankCells[i].student \in {"s1", "s4", "s5"}}

\* Result.uploaded_by of every row: ResultViewSet.perform_create stores the
\* staff profile of a staff caller and leaves the column NULL otherwise
WithUploader(rows, uploaders) ==
    [i \in 1..Len(rows) |->
        [f \in (DOMAIN rows[i]) \cup {"uploaded_by"} |->
            IF f = "uploaded_by" THEN uploaders[rows[i].student]
            ELSE rows[i][f]]]

\* who recorded the results of each student: an administrator every row, or
\* staff member 1 the rows of s5
Uploaders ==
    {[s \in DOMAIN InitCurrentClass |-> NoStaff],
     [s \in DOMAIN InitCurrentClass |-> IF s = "s5" THEN 1 ELSE NoStaff]}

\* the ledger row a first payment of 100 leaves for a student
PaidRow(st) ==
    LET data == ValidatedData(
                    [student |-> st, academic_year |-> "y1", term |-> "first",
                     fee_structure |-> "fs1", amount_paid |-> 100,
                     total_amount |-> 500,
                     transaction_id |-> IF st = "s1" THEN "" ELSE "t1",
                     payment_method |-> "", remarks |-> "", due_date |-> "d1"])
    IN  NewRow(InitFeeStructures, FullAmount(InitFeeStructures, data), data)

\* an Attendance row of a student in class 1
AttendanceRow(st) ==
    [student |-> st, date |-> "d1", status |-> "present", class_period |-> 1]

\* the ledger after first payments of the selected students, in pk order
PaidRows(selection) ==
    LET chosen == InOrder(<<"s1", "s2">>, selection)
    IN  [i \in 1..Len(chosen) |-> PaidRow(chosen[i])]

\* the Attendance table of the selected students, in pk order
AttendanceRows(selection) ==
    LET chosen == InOrder(<<"s1", "s4">>, selection)
    IN  [i \in 1..Len(chosen) |-> AttendanceRow(chosen[i])]

(***************************************************************************)
(* Specifications                                                          *)
(***************************************************************************)
\* the tables outside the fee ledger and the results, before any request
InitSchool ==
    /\ currentClass = InitCurrentClass
    /\ rankingResponse = NoRankingResponse
    /\ classTeacher = [c \in ClassPks |-> NoStaff]
    /\ staffTable = StaffPks
    /\ teacherResponse = NoTeacherResponse
    /\ procs = InitProcs
    /\ saveOrder = <<>>
    /\ attendance = <<>>
    /\ accounts = <<>>
    /\ accessResponse = NoAccessResponse

Init ==
    /\ feePayments = <<>>
    /\ feeStructures = InitFeeStructures
    /\ response = NoResponse
    /\ history = <<>>
    /\ results = <<>>
    /\ resultResponse = NoResultResponse
    /\ previous = <<>>
    /\ InitSchool

\* the fee ledger under sequential requests and schedule changes
Next == applyFeePayment \/ changeFeeStructure

Spec == Init /\ [][Next]_vars

\* the fee ledger under payments, schedule changes and the direct writes of
\* an administrator: PATCH and DELETE of /fee-payments/<pk>/
adminPartialUpdateFeePayment ==
    \E pk \in DetailPks, patch \in LedgerPatches :
        PartialUpdateFeePayment("admin1", pk, patch[1], patch[2]) /\ writeFrame

adminDestroyFeePayment ==
    \E pk \in DetailPks : DestroyFeePayment("admin1", pk) /\ writeFrame

\* the payments of the ledger scenario: 100 for the tuition of year y1, with
\* or without a transaction id
LedgerRequests ==
    {req \in Requests :
        /\ req.academic_year = "y1"
        /\ req.fee_structure = "fs1"
        /\ req.amount_paid = 100}

applyFeePaymentLedger ==
    \E req \in LedgerRequests :
        Create(req) /\ UNCHANGED <<history, resultVars, rankVars, teacherVars,
                                   concVars, accessVars>>

NextLedger ==
    \/ applyFeePaymentLedger
    \/ adminPartialUpdateFeePayment
    \/ adminDestroyFeePayment

SpecLedger == Init /\ [][NextLedger]_vars

\* the fee ledger when every incoming amount is >= 0
NextNonNeg == applyFeePaymentNonNeg \/ changeFeeStructure

SpecNonNeg == Init /\ [][NextNonNeg]_vars

\* the accumulation scenario: a schedule amount of 300 and recorded payments
InitSeq ==
    /\ feePayments = <<>>
    /\ feeStructures = [InitFeeStructures EXCEPT !["fs1"].amount = 300]
    /\ response = NoResponse
    /\ history = <<>>
    /\ results = <<>>
    /\ resultResponse = NoResultResponse
    /\ previous = <<>>
    /\ InitSchool

NextSeq == applyFeePaymentSeq

SpecSeq == InitSeq /\ [][NextSeq]_vars

\* payments of one student that carry the audit fields; a payload without
\* due_date is the one with due_date None
PaymentMethods == {"", "cash", "bank"}

Remarks == {"", "r1"}

DueDates == {None, "d1", "d2"}

MetaRequests ==
    [student : {"s1"}, academic_year : {"y1"}, term : {"first"},
     fee_structure : {"fs1"}, amount_paid : {0, 100},
     total_amount : PayloadTotals, transaction_id : {"", "t1", "t2"},
     payment_method : PaymentMethods, remarks : Remarks, due_date : DueDates]

\* what the last audited payment sent and the row it found (NoRow if none)
MetaRecord(req, rows) ==
    LET existing == IF SerializerIsValid(rows, req)
                    THEN Existing(rows, ValidatedData(req)) ELSE 0
    IN  [sent |-> req,
         before |-> IF existing # 0 THEN rows[existing] ELSE NoRow]

applyFeePaymentMeta ==
    \E req \in MetaRequests :
        /\ Create(req)
        /\ history' = <<MetaRecord(req, feePayments)>>
        /\ UNCHANGED <<resultVars, rankVars, teacherVars, concVars, accessVars>>

\* the audit fields of one ledger row under repeated payments
NextMeta == applyFeePaymentMeta

SpecMeta == Init /\ [][NextMeta]_vars

\* the result write paths
NextResult ==
    \/ apiCreateResult
    \/ apiUpdateResult
    \/ apiPartialUpdateResult
    \/ adminAddResult
    \/ adminChangeResult
    \/ generateSampleResults

SpecResult == Init /\ [][NextResult]_vars

\* a result whose scores are patched one at a time
NextRaise == createForRaise \/ patchForRaise

SpecRaise == Init /\ [][NextRaise]_vars

\* a recorded mark sheet, read by well-formed ranking requests
InitRanking ==
    /\ feePayments = <<>>
    /\ feeStructures = InitFeeStructures
    /\ response = NoResponse
    /\ history = <<>>
    /\ \E sheet \in MarkSheets : results = MarkSheet(sheet, 1)
    /\ resultResponse = NoResultResponse
    /\ previous = <<>>
    /\ \E c \in {1, 2} : currentClass = [InitCurrentClass EXCEPT !["s5"] = c]
    /\ rankingResponse = NoRankingResponse
    /\ classTeacher = [c \in ClassPks |-> NoStaff]
    /\ staffTable = StaffPks
    /\ teacherResponse = NoTeacherResponse
    /\ procs = InitProcs
    /\ saveOrder = <<>>
    /\ attendance = <<>>
    /\ accounts = <<>>
    /\ accessResponse = NoAccessResponse

NextRanking == getClassRankings

SpecRanking == InitRanking /\ [][NextRanking]_vars

\* a mark sheet of at most one row, read by every request
InitRankingAny ==
    /\ InitRanking
    /\ Len(results) <= 1

NextRankingAny == getClassRankingsAny

SpecRankingAny == InitRankingAny /\ [][NextRankingAny]_vars

\* a small mark sheet recorded while every ranked student was in class 1,
\* then class changes and ranking requests in any order
InitTransfer ==
    /\ feePayments = <<>>
    /\ feeStructures = InitFeeStructures
    /\ response = NoResponse
    /\ history = <<>>
    /\ \E sheet \in TransferSheets,
          classes \in {InitCurrentClass,
                       [s \in DOMAIN InitCurrentClass |-> NoClass]} :
          results = WithRecordedClass(MarkSheet(sheet, 1), classes)
    /\ resultResponse = NoResultResponse
    /\ previous = <<>>
    /\ InitSchool

NextTransfer ==
    \/ getClassRankings
    \/ setCurrentClass
    \/ removeFromClass
    \/ assignStudentsToClasses
    \/ adminDestroyStudent

SpecTransfer == InitTransfer /\ [][NextTransfer]_vars

\* tables with records of several students, staff member 1 teaching class 1
\* and s5 in class 2, read by every principal and written by one of every role
InitAccess ==
    /\ \E selection \in SUBSET Students :
          feePayments = PaidRows(selection)
    /\ feeStructures = InitFeeStructures
    /\ response = NoResponse
    /\ history = <<>>
    /\ \E sheet \in AccessSheets, uploaders \in Uploaders :
          results = WithUploader(MarkSheet(sheet, 1), uploaders)
    /\ resultResponse = NoResultResponse
    /\ previous = <<>>
    /\ currentClass = [InitCurrentClass EXCEPT !["s5"] = 2]
    /\ rankingResponse = NoRankingResponse
    /\ classTeacher = [c \in ClassPks |-> IF c = 1 THEN 1 ELSE NoStaff]
    /\ staffTable = StaffPks
    /\ teacherResponse = NoTeacherResponse
    /\ procs = InitProcs
    /\ saveOrder = <<>>
    /\ \E selection \in SUBSET {"s1", "s4"} :
          attendance = AttendanceRows(selection)
    /\ accounts = <<>>
    /\ accessResponse = NoAccessResponse

NextAccess ==
    \/ listRecords
    \/ destroyFeePayment
    \/ createAttendance
    \/ updateAttendance
    \/ destroyAttendance
    \/ destroyStudent

SpecAccess == InitAccess /\ [][NextAccess]_vars

\* account creation by every principal
NextCreate == createAccount

SpecCreate == Init /\ [][NextCreate]_vars

\* every class-teacher operation, in any order
NextTeacher ==
    \/ assignClass
    \/ assignSpecificStaffToClass
    \/ autoAssignTeachers
    \/ adminAssignClassTeacher
    \/ adminRemoveClassTeacher
    \/ adminAssignToClass
    \/ adminRemoveFromClasses
    \/ destroyStaff

\* the class-teacher scenario: no results, or the mathematics result of s5
\* recorded by an administrator or by a staff member
InitTeacher ==
    /\ feePayments = <<>>
    /\ feeStructures = InitFeeStructures
    /\ response = NoResponse
    /\ history = <<>>
    /\ \/ results = <<>>
       \/ \E sheet \in AccessSheets, staff \in StaffPks \cup {NoStaff} :
             results = WithoutStudent(
                           WithoutStudent(
                               WithUploader(MarkSheet(sheet, 1),
                                            [s \in DOMAIN InitCurrentClass |-> staff]),
                               "s1"),
                           "s4")
    /\ resultResponse = NoResultResponse
    /\ previous = <<>>
    /\ InitSchool

SpecTeacher == InitTeacher /\ [][NextTeacher]_vars

\* two payments for one student and term at once, on an empty ledger or on
\* a ledger that holds the row of an earlier payment
InitConcurrent ==
    /\ feePayments \in {<<>>, <<LedgerRow>>}
    /\ feeStructures = InitFeeStructures
    /\ response = NoResponse
    /\ history = <<>>
    /\ results = <<>>
    /\ resultResponse = NoResultResponse
    /\ previous = <<>>
    /\ InitSchool

NextConcurrent == validate \/ lookup \/ write

SpecConcurrent == InitConcurrent /\ [][NextConcurrent]_vars

(***************************************************************************)
(* Properties of the fee ledger                                            *)
(***************************************************************************)
SameKey(a, b) ==
    /\ a.student = b.student
    /\ a.academic_year = b.academic_year
    /\ a.term = b.term

Applied == response.kind \in {"created", "updated"}

\* C1: in every reachable state the ledger holds at most one FeePayment row
\* per (student, academic_year, term), however many payments were made
OneRowPerKey ==
    \A i, j \in 1..Len(feePayments) :
        SameKey(feePayments[i], feePayments[j]) => i = j

\* C1 witness: both students have a row and a further payment was
\* accumulated on an existing row
OneRowPerKeyWitness ==
    /\ Len(feePayments) = 2
    /\ response.kind = "updated"
    /\ feePayments[response.pk].amount_paid = 200

\* C2: with incoming amounts >= 0 and arbitrary schedule changes, every
\* ledger row has amount_paid <= total_amount
NeverOvershoots ==
    \A i \in 1..Len(feePayments) :
        feePayments[i].amount_paid <= feePayments[i].total_amount

\* C3: a payment applied to an existing row never decreases its amount_paid
AmountPaidNeverDecreases ==
    [][\A i \in 1..Len(feePayments) :
          feePayments'[i].amount_paid >= feePayments[i].amount_paid]_vars

\* C4: the returned row's status is paid iff amount_paid >= total_amount > 0,
\* partial iff 0 < amount_paid < total_amount, pending iff amount_paid = 0,
\* and nothing else
StatusDerivedFromAmounts ==
    Applied =>
        LET r == feePayments[response.pk]
        IN  /\ r.status \in {PAID, PARTIAL, PENDING}
            /\ r.status = PAID <=>
                   (r.amount_paid >= r.total_amount /\ r.total_amount > 0)
            /\ r.status = PARTIAL <=>
                   (0 < r.amount_paid /\ r.amount_paid < r.total_amount)
            /\ r.status = PENDING <=> r.amount_paid = 0

C5Amounts == <<100, 100, 100, 50>>

C5Totals == <<100, 200, 300, 300>>

C5Statuses == <<PARTIAL, PARTIAL, PAID, PAID>>

\* the first n recorded payments are the scenario's: one key, a full amount
\* of 300, incoming amounts 100, 100, 100, 50
C5Prefix(n) ==
    /\ Len(history) >= n
    /\ \A i \in 1..n :
          /\ history[i].incoming = C5Amounts[i]
          /\ history[i].full_amount = 300
          /\ history[i].student = history[1].student
          /\ history[i].term = history[1].term

\* C5: with a full amount of 300, payments of 100, 100, 100, 50 on one key
\* leave its single row at (100, partial), (200, partial), (300, paid),
\* (300, paid), in that order
FeeAccumulationConvergence ==
    \A n \in 1..4 :
        C5Prefix(n) =>
            /\ history[n].kind \in {"created", "updated"}
            /\ history[n].amount_paid = C5Totals[n]
            /\ history[n].status = C5Statuses[n]
            /\ history[n].rows = 1

\* C5 witness: the four payments were made and the excess 50 was absorbed
FeeAccumulationWitness ==
    /\ C5Prefix(4)
    /\ history[4].kind = "updated"
    /\ Len(feePayments) = 1
    /\ feePayments[1].amount_paid = 300

\* C6: when a TUITION schedule row exists for the payment's academic year
\* and the grade of the student's current class, its amount is the full
\* amount the payment uses, whatever the caller supplied
GradeScheduleIsAuthoritative ==
    (Applied /\ response.schedule # -1) => response.full_amount = response.schedule

\* C7: a payment with a negative incoming amount fails with a validation
\* error and leaves the ledger unchanged
NegativeAmountRejected ==
    [][\A req \in Requests :
          (req.amount_paid < 0 /\ Create(req)) =>
              /\ response'.kind = "validation_error"
              /\ feePayments' = feePayments]_vars

(***************************************************************************)
(* Properties of result grading                                            *)
(***************************************************************************)
\* the bands as the specification lists them: inclusive lower bounds, top down
Bands ==
    <<[low |-> 9000, grade |-> "A+"], [low |-> 8000, grade |-> "A"],
      [low |-> 7000, grade |-> "B+"], [low |-> 6000, grade |-> "B"],
      [low |-> 5000, grade |-> "C+"], [low |-> 4000, grade |-> "C"],
      [low |-> 3000, grade |-> "D"]>>

BandOf(p) ==
    LET hit == {i \in 1..Len(Bands) : p >= Bands[i].low}
    IN  IF hit = {} THEN "F"
        ELSE Bands[CHOOSE i \in hit : \A j \in hit : i <= j].grade

\* position of a letter in the order F < D < C < C+ < B < B+ < A < A+
GradeRank(g) ==
    CASE g = "A+" -> 7 [] g = "A" -> 6 [] g = "B+" -> 5 [] g = "B" -> 4
      [] g = "C+" -> 3 [] g = "C" -> 2 [] g = "D" -> 1 [] OTHER -> 0

RowPercentage(r) == Percentage(r.marks_obtained, r.total_marks)

ScoreSum(r) ==
    r.ca1_score + r.ca2_score + r.ca3_score + r.ca4_score + r.exam_score

\* C8: every persisted Result has marks_obtained = ca1 + ca2 + ca3 + ca4 +
\* exam_score, total_marks = 100 and the grade of its percentage; values a
\* caller supplies for these fields never survive a write
DerivedFieldsRecomputed ==
    \A i \in 1..Len(results) :
        /\ results[i].marks_obtained = ScoreSum(results[i])
        /\ results[i].total_marks = 100
        /\ results[i].grade = BandOf(ScoreSum(results[i]))

\* C8 witness: a write whose caller supplied marks_obtained, total_marks and
\* grade left a row that holds none of the supplied values
DerivedFieldsWitness ==
    /\ resultResponse.supplied
    /\ resultResponse.kind \in {"created", "updated", "patched"}
    /\ results[resultResponse.pk].marks_obtained # SuppliedMarks
    /\ results[resultResponse.pk].total_marks # SuppliedTotal
    /\ results[resultResponse.pk].grade # SuppliedGrade

\* C9: the grade a save writes is the band of the percentage with inclusive
\* lower bounds; 90.00 gives A+, 89.99 A, 40.00 C, 39.99 D and 0 F
GradeBandingExact ==
    \A i \in 1..Len(results) :
        LET p == RowPercentage(results[i])
            g == results[i].grade
        IN  /\ g = BandOf(p)
            /\ p = 9000 => g = "A+"
            /\ p = 8999 => g = "A"
            /\ p = 4000 => g = "C"
            /\ p = 3999 => g = "D"
            /\ p = 0 => g = "F"

\* C9 witness: a saved result of 89.99 percent graded A
GradeBandingWitness ==
    \E i \in 1..Len(results) :
        RowPercentage(results[i]) = 8999 /\ results[i].grade = "A"

\* the patch replaced old by new and raised a score, all scores valid
Raised(old, new) ==
    /\ ScoresValid(old)
    /\ ScoresValid(new)
    /\ \A f \in ScoreFields : new[f] >= old[f]
    /\ \E f \in ScoreFields : new[f] > old[f]

\* C10: raising a single score to a larger valid value never lowers
\* marks_obtained or percentage and never moves grade to a lower band
GradeMonotone ==
    (previous # <<>> /\ resultResponse.kind = "patched") =>
        LET old == previous[1]
            new == results[resultResponse.pk]
        IN  Raised(old, new) =>
                /\ new.marks_obtained >= old.marks_obtained
                /\ RowPercentage(new) >= RowPercentage(old)
                /\ GradeRank(new.grade) >= GradeRank(old.grade)

\* C10 witness: a raised score moved the result into a higher band
GradeMonotoneWitness ==
    /\ previous # <<>>
    /\ resultResponse.kind = "patched"
    /\ Raised(previous[1], results[resultResponse.pk])
    /\ GradeRank(results[resultResponse.pk].grade) > GradeRank(previous[1].grade)

\* C11: a request to record or update a result that carries a CA score
\* outside [0,10] or an exam score outside [0,60] is answered by a
\* ValidationError (the serializer's 400, or the form error page of the
\* admin), and the Result rows and all their fields are unchanged
OutOfRangeRejected ==
    [][resultResponse'.out_of_range =>
          /\ resultResponse'.kind \in {"validation_error", "form_error"}
          /\ results' = results]_vars

\* every write path refuses an out-of-range request in some way (the admin
\* with an error message only) and none of them changes a row
OutOfRangeNeverWritten ==
    [][resultResponse'.out_of_range =>
          /\ resultResponse'.kind \in {"validation_error", "form_error", "admin_rejected"}
          /\ results' = results]_vars

\* C12: recording a result again for an existing key with valid scores
\* leaves one row for the key, updated in place to the new scores
RecordTwiceUpserts ==
    [][\A key \in ResultKeys, p \in Payloads :
          (InRange(p) /\ ExistingResult(results, key) # 0 /\ ApiCreateResult(key, p))
              => /\ Len(results') = Len(results)
                 /\ LET r == results'[ExistingResult(results, key)]
                    IN  /\ \A f \in ScoreFields : r[f] = p[f]
                        /\ r.marks_obtained = ScoreSum(r)]_vars

Ranked == rankingResponse.rankings

\* C13: the rankings are in non-increasing order of average percentage and
\* every position is 1 + the number of ranked students with a strictly
\* higher average, so that equal averages share a position
RankingWithGaps ==
    /\ \A i \in 1..(Len(Ranked) - 1) :
          Ranked[i].average_percentage >= Ranked[i + 1].average_percentage
    /\ \A i \in 1..Len(Ranked) :
          Ranked[i].position =
              1 + Cardinality({j \in 1..Len(Ranked) :
                      Ranked[j].average_percentage > Ranked[i].average_percentage})

\* C13 witness: two students tied at position 1 are followed by position 3
RankingWithGapsWitness ==
    /\ Len(Ranked) >= 3
    /\ Ranked[1].position = 1 /\ Ranked[2].position = 1
    /\ Ranked[1].average_percentage = Ranked[2].average_percentage
    /\ Ranked[3].position = 3

\* averages 90, 85, 85 lead the ranking
NinetyEightyFiveTwice ==
    /\ Len(Ranked) >= 3
    /\ Ranked[1].average_percentage = 9000
    /\ Ranked[2].average_percentage = 8500
    /\ Ranked[3].average_percentage = 8500

NextBelow == Len(Ranked) >= 4 /\ Ranked[4].average_percentage < 8500

\* C14 as stated: averages 90, 85, 85 receive positions 1, 2, 2 and the next
\* distinct student below them receives position 3
TiesThenThird ==
    NinetyEightyFiveTwice =>
        /\ Ranked[1].position = 1 /\ Ranked[2].position = 2
        /\ Ranked[3].position = 2
        /\ NextBelow => Ranked[4].position = 3

\* C14 amended: averages 90, 85, 85 receive positions 1, 2, 2 and the next
\* distinct student below them receives position 4
TiesThenFourth ==
    NinetyEightyFiveTwice =>
        /\ Ranked[1].position = 1 /\ Ranked[2].position = 2
        /\ Ranked[3].position = 2
        /\ NextBelow => Ranked[4].position = 4

\* C14 witness: 90, 85, 85 and a fourth student below them, ranked 1, 2, 2, 4
TiesThenFourthWitness ==
    /\ NinetyEightyFiveTwice /\ NextBelow
    /\ Ranked[2].position = 2 /\ Ranked[3].position = 2
    /\ Ranked[4].position = 4

\* the Result rows the last ranking request selects for student s
Selected(s) ==
    LET q == rankingResponse.class_info
    IN  {i \in 1..Len(results) :
            /\ results[i].student = s
            /\ currentClass[s] = ParseInt(q.class_id)
            /\ results[i].term = q.term
            /\ AcademicYearPk(results[i].academic_year) = ParseInt(q.academic_year)}

RECURSIVE Total(_, _)
Total(rows, column) ==
    IF rows = {} THEN 0
    ELSE LET i == CHOOSE i \in rows : TRUE
         IN  results[i][column] + Total(rows \ {i}, column)

Answered == rankingResponse.status = 200

\* C15: a ranked student's average_percentage is the sum of marks_obtained
\* over the sum of total_marks times 100, to the nearest hundredth (0 when
\* the sum of total_marks is 0), and each student with at least one
\* selected result appears exactly once
AverageOfSums ==
    Answered =>
        /\ \A i \in 1..Len(Ranked) :
              LET sel == Selected(Ranked[i].student_id)
                  marks == Total(sel, "marks_obtained")
                  max == Total(sel, "total_marks")
                  diff == Ranked[i].average_percentage * max - 100 * marks
              IN  /\ sel # {}
                  /\ max > 0 => (2 * diff <= max /\ -2 * diff <= max)
                  /\ max = 0 => Ranked[i].average_percentage = 0
        /\ \A s \in DOMAIN currentClass :
              Selected(s) # {} =>
                  Cardinality({i \in 1..Len(Ranked) : Ranked[i].student_id = s}) = 1

\* C15 witness: a student with two results, 90.00 and 40.01 out of 100 each,
\* is ranked with the average 65.00
AverageOfSumsWitness ==
    \E i \in 1..Len(Ranked) :
        /\ Ranked[i].subject_count = 2
        /\ Ranked[i].total_weighted_score = 13001
        /\ Ranked[i].total_max_score = 200
        /\ Ranked[i].average_percentage = 6500

WellFormed(q) ==
    /\ q.class_id # "" /\ q.term # "" /\ q.academic_year # ""
    /\ CanParseInt(q.class_id) /\ CanParseInt(q.academic_year)
    /\ q.term \in {"first", "second", "third"}

Exists(q) ==
    /\ ParseInt(q.class_id) \in ClassPks
    /\ ParseInt(q.academic_year) \in AcademicYearPks

\* C16: a request for an existing class, an existing year and a recognized
\* term that selects no result succeeds with an empty rankings list and an
\* explanatory message
EmptyRankingSucceeds ==
    LET q == rankingResponse.class_info
    IN  (/\ rankingResponse.status # 0
         /\ WellFormed(q) /\ Exists(q)
         /\ \A s \in DOMAIN currentClass : Selected(s) = {})
            => /\ rankingResponse.status = 200
               /\ rankingResponse.error = ""
               /\ Ranked = <<>>
               /\ rankingResponse.total_students = 0
               /\ rankingResponse.message # ""

\* C16 witness: results exist, none of them in the second term that was asked
EmptyRankingWitness ==
    /\ Len(results) >= 2
    /\ rankingResponse.status = 200
    /\ rankingResponse.class_info.term = "second"
    /\ rankingResponse.class_info.class_id = "1"
    /\ Ranked = <<>>

\* C17: a missing parameter, a non-numeric id or an unrecognized term is
\* answered 400, a class or year that does not exist 404; the shape is
\* checked before existence and no ranking is computed in either case
ShapeBeforeExistence ==
    LET q == rankingResponse.class_info
    IN  rankingResponse.status # 0 =>
            /\ ~WellFormed(q) => rankingResponse.status = 400
            /\ (WellFormed(q) /\ ~Exists(q)) => rankingResponse.status = 404
            /\ (~WellFormed(q) \/ ~Exists(q)) =>
                   (Ranked = <<>> /\ rankingResponse.error # ""
                    /\ rankingResponse.message = "")

\* C17 witness: an unrecognized term for a class that does not exist is a 400,
\* while results are on record
ShapeBeforeExistenceWitness ==
    /\ rankingResponse.status = 400
    /\ rankingResponse.class_info.term = "final"
    /\ rankingResponse.class_info.class_id = "9"
    /\ rankingResponse.class_info.academic_year = "1"
    /\ Len(results) = 1

\* C18: every staff member is class teacher of at most one class, and every
\* class has at most one class teacher
OneClassPerTeacher ==
    /\ \A s \in StaffPks : Cardinality({c \in ClassPks : classTeacher[c] = s}) <= 1
    /\ \A c \in ClassPks : classTeacher[c] \in staffTable \cup {NoStaff}

\* C18 witness: the admin action was refused for a staff member who has a
\* class while another class was free
OneClassPerTeacherWitness ==
    /\ teacherResponse = TeacherOutcome("staff_assign", "integrity_error")
    /\ \E c \in ClassPks : classTeacher[c] = NoStaff
    /\ \E c \in ClassPks : classTeacher[c] # NoStaff

AllDone == \A w \in Workers : procs[w].pc = "done"

\* C19: under every interleaving of the lookups and writes of two payments
\* for the same (student, academic_year, term) the ledger ends with at most
\* one row for that key
LedgerEndsWithOneRow ==
    AllDone =>
        \A i, j \in 1..Len(feePayments) :
            (i # j) => ~SameKey(feePayments[i], feePayments[j])

\* both payments found the same existing row
BothFoundRow ==
    \A w \in Workers :
        /\ procs[w].pc \in {"looked_up", "done"}
        /\ procs[w].existing = 1

\* C20: two payments that interleave on the same existing row both complete
\* without error and the later write wins: amount_paid, total_amount and
\* status are those the payment that saved last computed from the row it read
LaterWriteWins ==
    (BothFoundRow /\ AllDone) =>
        /\ \A w \in Workers : procs[w].kind = "updated"
        /\ Len(saveOrder) = 2
        /\ LET last == procs[saveOrder[2]]
               computed == UpdatedRow(last.read, last.full_amount, last.data)
           IN  /\ feePayments[1].amount_paid = computed.amount_paid
               /\ feePayments[1].total_amount = computed.total_amount
               /\ feePayments[1].status = computed.status

\* C20 witness: a payment of 100 and a payment of 0 both read the row at 100
\* of 200; the payment of 0 saved last and the row is back at 100, partial
LaterWriteWinsWitness ==
    /\ BothFoundRow /\ AllDone
    /\ \A w \in Workers : procs[w].read.amount_paid = 100
                          /\ procs[w].data.fee_structure = "fs1"
    /\ procs[saveOrder[1]].data.amount_paid = 100
    /\ procs[saveOrder[2]].data.amount_paid = 0
    /\ feePayments[1].amount_paid = 100
    /\ feePayments[1].total_amount = 200
    /\ feePayments[1].status = PARTIAL

Written == response'.kind \in {"created", "updated"}

\* C21: a payment for key (student, academic_year, term) writes only the
\* ledger row of that key: the row it creates or updates carries the
\* request's student, academic year and term (so two academic years keep
\* two rows) and every other row is unchanged
WritesOnlyItsKey ==
    [][\A req \in Requests :
          Create(req) =>
              /\ Written =>
                     /\ feePayments'[response'.pk].student = req.student
                     /\ feePayments'[response'.pk].academic_year = req.academic_year
                     /\ feePayments'[response'.pk].term = req.term
              /\ \A i \in 1..Len(feePayments) :
                     (i # response'.pk) => feePayments'[i] = feePayments[i]]_vars

\* C22: after a payment that created or updated a row, the row's
\* total_amount is the full amount resolved during that payment
TotalIsResolvedAmount ==
    Applied => feePayments[response.pk].total_amount = response.full_amount

\* the student has no current class, or no TUITION schedule matches
NoSchedule(req) ==
    \/ ~HasCurrentClass(req.student)
    \/ GradeFeeStructure(feeStructures, req.academic_year,
                         StudentGrade(req.student)) = None

\* the first available of: the caller's fee structure amount, the caller's
\* total_amount, the incoming amount
FirstAvailable(req) ==
    IF req.fee_structure # None THEN feeStructures[req.fee_structure].amount
    ELSE IF req.total_amount # 0 THEN req.total_amount
    ELSE req.amount_paid

\* C23: without a class or a matching schedule the payment does not fail and
\* its full amount is the first available of the three fallbacks (payments
\* whose transaction id is already on the ledger are left aside)
FallbackNeverFails ==
    [][\A req \in Requests :
          (/\ NoSchedule(req)
           /\ \A i \in 1..Len(feePayments) :
                  feePayments[i].transaction_id # req.transaction_id
           /\ Create(req))
              => (Written /\ response'.full_amount = FirstAvailable(req))]_vars

\* C30: a first payment for a key that carries no transaction id creates the
\* row, whatever transaction ids the ledger already holds
BlankTransactionNeverBlocks ==
    [][\A req \in Requests :
          (/\ req.transaction_id = ""
           /\ req.fee_structure # None
           /\ Existing(feePayments, ValidatedData(req)) = 0
           /\ Create(req))
              => response'.kind = "created"]_vars

LastSent == history[1].sent

RowBefore == history[1].before

Audited == history # <<>> /\ response.kind = "updated"

\* C24: a payment that updates an existing row replaces payment_method,
\* transaction_id, remarks and due_date by the value the caller sent when that
\* value is non-empty, and keeps the row's prior value when it is empty or absent
AuditFieldsKeptWhenBlank ==
    Audited =>
        LET row == feePayments[response.pk]
        IN  /\ row.payment_method = IF LastSent.payment_method # ""
                                    THEN LastSent.payment_method
                                    ELSE RowBefore.payment_method
            /\ row.transaction_id = IF LastSent.transaction_id # ""
                                    THEN LastSent.transaction_id
                                    ELSE RowBefore.transaction_id
            /\ row.remarks = IF LastSent.remarks # ""
                             THEN LastSent.remarks ELSE RowBefore.remarks
            /\ row.due_date = IF LastSent.due_date # None
                              THEN LastSent.due_date ELSE RowBefore.due_date

\* a payment with blank method, transaction id and remarks has updated a row
\* that held all three, and the row still holds them
AuditFieldsKeptWitness ==
    /\ Audited
    /\ LastSent.payment_method = "" /\ LastSent.transaction_id = ""
    /\ LastSent.remarks = ""
    /\ RowBefore.payment_method = "cash" /\ RowBefore.transaction_id = "t1"
    /\ RowBefore.remarks = "r1"
    /\ feePayments[response.pk].payment_method = "cash"
    /\ feePayments[response.pk].transaction_id = "t1"
    /\ feePayments[response.pk].remarks = "r1"

\* C26: assign_class with the id of an existing class leaves the staff member
\* class teacher of exactly that class; with an empty class_id, of no class;
\* with an id that names no class it answers not found and changes nothing
AssignClassExact ==
    [][\A staff \in staffTable, class_id \in ClassPks \cup {NoClass, 9} :
          AssignClass(staff, class_id) =>
              IF class_id = NoClass
              THEN ClassesOf(classTeacher', staff) = {}
              ELSE IF class_id \in ClassPks
              THEN ClassesOf(classTeacher', staff) = {class_id}
              ELSE /\ classTeacher' = classTeacher
                   /\ teacherResponse'.kind = "not_found"]_vars

\* assign_class has assigned, and every class has its own teacher
AssignClassExactWitness ==
    /\ teacherResponse = TeacherOutcome("assign_class", "assigned")
    /\ \A c \in ClassPks : classTeacher[c] # NoStaff
    /\ \A s \in StaffPks : Cardinality(ClassesOf(classTeacher, s)) = 1

\* the students of rows of (term, academic_year), by the request's spelling
StudentsWithResults(rows, req) ==
    {rows[i].student : i \in {j \in 1..Len(rows) :
        /\ rows[j].term = req.term
        /\ AcademicYearPk(rows[j].academic_year) = ParseInt(req.academic_year)}}

\* C25: a ranking request ranks exactly the students whose current class, at
\* the time of the request, is the requested class and who have results for
\* the term and year, whatever class is recorded on those results (a step
\* that changes the ranking response is a ranking request, the response
\* carries the request, and the request leaves the tables alone)
RankedByCurrentClass ==
    [][(rankingResponse' # rankingResponse /\ rankingResponse'.status = 200) =>
          LET req == rankingResponse'.class_info
          IN  {Ranked'[i].student_id : i \in 1..Len(Ranked')} =
                  {s \in StudentsWithResults(results', req) :
                      currentClass'[s] = ParseInt(req.class_id)}]_vars

\* a student whose results were recorded in class 1 is ranked in class 2,
\* the student's class now
RankedByCurrentClassWitness ==
    /\ rankingResponse.status = 200
    /\ rankingResponse.class_info.class_id = "2"
    /\ \E i \in 1..Len(Ranked) :
          /\ currentClass[Ranked[i].student_id] = 2
          /\ \E j \in 1..Len(results) :
                /\ results[j].student = Ranked[i].student_id
                /\ results[j].recorded_class = 1

\* the rows of the table a listing of the resource reads
TableOf(resource) ==
    CASE resource = "results" -> results
      [] resource = "fee_payments" -> feePayments
      [] resource = "attendance" -> attendance

Listed == accessResponse.op = "list" /\ accessResponse.kind = "ok"

\* C27: every User, Student or Staff row created through the API was created
\* by an admin or management principal
CreatedOnlyByAdmin ==
    \A i \in 1..Len(accounts) :
        Role(accounts[i].created_by) \in {"admin", "management"}

\* C28: a Result, FeePayment or Attendance listing answered to a principal
\* of role student holds exactly the records whose student is the
\* principal's own profile, and nothing when the principal has no profile
StudentSeesOwnRecords ==
    (/\ Listed
     /\ Role(accessResponse.user) = "student"
     /\ accessResponse.resource \in {"results", "fee_payments", "attendance"})
        => LET rows == TableOf(accessResponse.resource)
           IN  accessResponse.pks =
                   {i \in 1..Len(rows) :
                       /\ HasStudentProfile(accessResponse.user)
                       /\ rows[i].student = StudentProfile(accessResponse.user)}

\* a student's listing of results holds a record while the table also holds
\* a record of another student
StudentSeesOwnRecordsWitness ==
    /\ Listed
    /\ accessResponse.user = "stud1"
    /\ accessResponse.resource = "results"
    /\ accessResponse.pks # {}
    /\ \E i \in 1..Len(results) : i \notin accessResponse.pks

\* C29: a Student, Result, FeePayment or Attendance listing answered to a
\* principal of role parent holds exactly the records of the principal's
\* children
ParentSeesChildrenRecords ==
    (Listed /\ Role(accessResponse.user) = "parent")
        => IF accessResponse.resource = "students"
           THEN accessResponse.pks =
                    (IF HasParentProfile(accessResponse.user)
                     THEN Children(accessResponse.user) ELSE {})
           ELSE LET rows == TableOf(accessResponse.resource)
                IN  accessResponse.pks =
                        {i \in 1..Len(rows) :
                            /\ HasParentProfile(accessResponse.user)
                            /\ rows[i].student \in Children(accessResponse.user)}

====
